---------------------------- MODULE Spec2Model ----------------------------
(***************************************************************************)
(* A model of the editing core of the modal terminal editor wlcsm/jk:      *)
(* the row store, the cursor and viewport arithmetic, the cross-line       *)
(* syntax highlighter, the key-map dispatcher and the search session.      *)
(*                                                                         *)
(* The repository holds several snapshots of the same program.  A function *)
(* that exists in more than one snapshot is modelled once per snapshot     *)
(* that the properties below depend on; the suffix of the definition names *)
(* the file it is translated from:                                         *)
(*    _p0   src/unnamed/part_000              (blocking Prompt)            *)
(*    _sdk  src/sdk.go, lines 428-991         (Prompt installs a key-map)  *)
(*    _p1   src/unnamed/part_001, lines 1-595 (FindInteractive, Delete)    *)
(*    _k1   src/unnamed/part_001, lines 596-949 (key-maps)                 *)
(*    _k2   src/config.go, lines 175-436        (key-maps)                 *)
(* Functions of src/mini.go exist once and carry no suffix.                *)
(*                                                                         *)
(* Runes are one-character strings, texts are sequences of runes.  The     *)
(* code counts from 0 and so do cx, cy and every index that is passed      *)
(* around; a TLA+ sequence counts from 1, so rows[y + 1] is the code's     *)
(* e.rows[y].                                                              *)
(***************************************************************************)
EXTENDS Integers, Sequences, FiniteSets, TLC

VARIABLES
    rows,        \* e.rows: sequence of Row records
    cx,          \* e.cx
    cy,          \* e.cy
    rowOffset,   \* e.rowOffset
    colOffset,   \* e.colOffset
    Mode,        \* e.Mode
    modified,    \* e.modified
    syntax,      \* e.syntax: NoSyntax (nil) or a syntax profile
    Keymapping,  \* the global key-map chain: sequence of key-map names
    prompt,      \* the installed prompt callback and the variables it captured
    crashed,     \* TRUE once a handler has panicked (index out of range)
    pc,          \* main loop position: "render" or "key"
    build,       \* which snapshot's SDK and key-maps are linked
    disk,        \* the bytes of the file e.filename names, where they matter
    filename,    \* e.filename: a sequence of runes
    statusmsg,   \* e.statusmsg, where it matters: the pieces of its text
    hist         \* observer: what the last step did (not program state)

vars == <<rows, cx, cy, rowOffset, colOffset, Mode, modified, syntax,
          Keymapping, prompt, crashed, pc, build, disk, filename, statusmsg,
          hist>>

-----------------------------------------------------------------------------
(* Bounds of the model *)

MaxRows == 2
MaxLen == 2
MaxHlRows == 3
MaxKwLen == 5
MaxFile == 5
MaxText == 3
MaxName == 2
MaxIdxRows == 3
MaxQuery == 3

-----------------------------------------------------------------------------
(* Program constants *)

hlNormal == 1
hlComment == 2
hlMlComment == 3
hlKeyword1 == 4
hlKeyword2 == 5
hlString == 6
hlNumber == 7
hlMatch == 8

Tabstop == 8

InsertMode == "InsertMode"
CommandMode == "CommandMode"
PromptMode == "PromptMode"

BasicMapName == "Basic"
InsertModeName == "Insert"
CommandModeName == "Command"
PromptModeName == "Prompt"

NoSyntax == [filetype |-> "none"]

\* The "javascript" entry of HLDB, with the keyword lists cut to the keywords
\* that can be spelled with the runes of the model ("in", "if" of keywords,
\* "int" of keywords2).
JsSyntax ==
    [filetype |-> "javascript",
     keywords |-> << <<"i", "n">>, <<"i", "f">> >>,
     keywords2 |-> << <<"i", "n", "t">> >>,
     scs |-> <<"/", "/">>,
     mcs |-> <<"/", "*">>,
     mce |-> <<"*", "/">>,
     highlightStrings |-> TRUE,
     highlightNumbers |-> TRUE]

-----------------------------------------------------------------------------
(* Runes *)

SpaceRunes == {" ", "\t"}
DigitRunes == {"0", "1", "2", "3", "4", "5", "6", "7", "8", "9"}
SeparatorRunes ==
    {",", ".", "(", ")", "+", "-", "/", "*", "=", "~", "%", "<", ">", "[",
     "]", "{", "}", ":", ";"}

IsSpace(r) == r \in SpaceRunes

IsDigit(r) == r \in DigitRunes

isSeparator(r) == IsSpace(r) \/ r \in SeparatorRunes

HasPrefix(s, p) == Len(p) <= Len(s) /\ SubSeq(s, 1, Len(p)) = p

\* s[from:] of the code, from counted from 0
Tail0(s, from) == SubSeq(s, from + 1, Len(s))

\* s[:to] of the code
Head0(s, to) == SubSeq(s, 1, to)

\* The least and the greatest element of a non-empty set of integers
Least(S) == CHOOSE i \in S : \A j \in S : i <= j

Greatest(S) == CHOOSE i \in S : \A j \in S : i >= j

Min(a, b) == IF a < b THEN a ELSE b

Max(a, b) == IF a > b THEN a ELSE b

-----------------------------------------------------------------------------
(* Syntax highlighter: src/mini.go *)

\* The keyword of the list with the least index among hits, <<>> if none
FirstKeyword(keywords, hits) ==
    IF hits = {} THEN <<>> ELSE keywords[Least(hits)]

checkKeywordMatch_embedded(keywords, text) ==
    FirstKeyword(keywords, {i \in 1..Len(keywords) : HasPrefix(text, keywords[i])})

\* The first keyword of the list that is a prefix of text and is followed by
\* the end of text or by a separator; <<>> when there is none.
checkKeywordMatch(keywords, text) ==
    FirstKeyword(keywords,
                 {i \in 1..Len(keywords) :
                     /\ HasPrefix(text, keywords[i])
                     /\ \/ Len(keywords[i]) = Len(text)
                        \/ isSeparator(text[Len(keywords[i]) + 1])})

checkIfKeyword(syn, text) ==
    LET Pick(kw1, kw2) ==
            IF Len(kw1) # 0 THEN [kw |-> kw1, hl |-> hlKeyword1]
            ELSE IF Len(kw2) # 0 THEN [kw |-> kw2, hl |-> hlKeyword2]
            ELSE [kw |-> <<>>, hl |-> 0]
    IN Pick(checkKeywordMatch(syn.keywords, text),
            checkKeywordMatch(syn.keywords2, text))

\* hl with the positions from..to-1 (counted from 0) set to c
Paint(hl, from, to, c) ==
    [i \in 1..Len(hl) |-> IF from < i /\ i <= to THEN c ELSE hl[i]]

NoQuote == ""

\* The loop of updateHighlight over the runes of the render string.  st is
\* [idx, hl, prevSep, strQuote, inComment]; the result is the state when the
\* loop ends.
RECURSIVE hlLoop(_, _, _)
hlLoop(syn, runes, st) ==
    IF st.idx >= Len(runes) THEN st
    ELSE
    LET idx == st.idx
        r == runes[idx + 1]
        prevHl == IF idx > 0 THEN st.hl[idx] ELSE hlNormal
        rest == Tail0(runes, idx)
    IN
    IF /\ syn.scs # <<>> /\ st.strQuote = NoQuote /\ ~st.inComment
       /\ HasPrefix(rest, syn.scs)
    THEN \* single line comment: the rest of the row, and the loop ends
         [st EXCEPT !.hl = Paint(st.hl, idx, Len(runes), hlComment),
                    !.idx = Len(runes)]
    ELSE IF /\ syn.mcs # <<>> /\ syn.mce # <<>> /\ st.strQuote = NoQuote
            /\ st.inComment
    THEN IF HasPrefix(rest, syn.mce)
         THEN hlLoop(syn, runes,
                  [st EXCEPT !.hl = Paint(st.hl, idx, idx + Len(syn.mce), hlMlComment),
                             !.idx = idx + Len(syn.mce),
                             !.inComment = FALSE,
                             !.prevSep = TRUE])
         ELSE hlLoop(syn, runes,
                  [st EXCEPT !.hl = Paint(st.hl, idx, idx + 1, hlMlComment),
                             !.idx = idx + 1])
    ELSE IF /\ syn.mcs # <<>> /\ syn.mce # <<>> /\ st.strQuote = NoQuote
            /\ HasPrefix(rest, syn.mcs)
    THEN hlLoop(syn, runes,
             [st EXCEPT !.hl = Paint(st.hl, idx, idx + Len(syn.mcs), hlMlComment),
                        !.idx = idx + Len(syn.mcs),
                        !.inComment = TRUE])
    ELSE IF syn.highlightStrings /\ st.strQuote # NoQuote
    THEN IF r = "\\" /\ idx + 1 < Len(runes)
         THEN hlLoop(syn, runes,
                  [st EXCEPT !.hl = Paint(st.hl, idx, idx + 2, hlString),
                             !.idx = idx + 2])
         ELSE hlLoop(syn, runes,
                  [st EXCEPT !.hl = Paint(st.hl, idx, idx + 1, hlString),
                             !.strQuote = IF r = st.strQuote THEN NoQuote ELSE st.strQuote,
                             !.idx = idx + 1,
                             !.prevSep = TRUE])
    ELSE IF syn.highlightStrings /\ r \in {"\"", "'"}
    THEN hlLoop(syn, runes,
             [st EXCEPT !.hl = Paint(st.hl, idx, idx + 1, hlString),
                        !.strQuote = r,
                        !.idx = idx + 1])
    ELSE IF /\ syn.highlightNumbers
            /\ \/ IsDigit(r) /\ (st.prevSep \/ prevHl = hlNumber)
               \/ r = "." /\ prevHl = hlNumber
    THEN hlLoop(syn, runes,
             [st EXCEPT !.hl = Paint(st.hl, idx, idx + 1, hlNumber),
                        !.idx = idx + 1,
                        !.prevSep = FALSE])
    ELSE LET Keyword(m) ==
                 hlLoop(syn, runes,
                     [st EXCEPT !.hl = IF m.kw # <<>>
                                       THEN Paint(st.hl, idx, idx + Len(m.kw), m.hl)
                                       ELSE st.hl,
                                !.idx = idx + Len(m.kw) + 1,
                                !.prevSep = isSeparator(r)])
         IN Keyword(IF st.prevSep THEN checkIfKeyword(syn, rest)
                    ELSE [kw |-> <<>>, hl |-> 0])

\* One pass of updateHighlight over row y of rs, without the recursion into
\* the next row: the row with its new hl and hasUnclosedComment.
highlightRow(syn, rs, y) ==
    LET row == rs[y + 1]
        n == Len(row.render)
        normal == [i \in 1..n |-> hlNormal]
    IN IF syn = NoSyntax THEN [row EXCEPT !.hl = normal]
       ELSE LET Done(st) ==
                    [row EXCEPT !.hl = st.hl, !.hasUnclosedComment = st.inComment]
            IN Done(hlLoop(syn, row.render,
                        [idx |-> 0, hl |-> normal, prevSep |-> TRUE,
                         strQuote |-> NoQuote,
                         inComment |-> y > 0 /\ rs[y].hasUnclosedComment]))


-----------------------------------------------------------------------------
(* The editor as a value.  The handlers of the code mutate the Editor they   *)
(* are given; here each is an operator from an editor record to the editor   *)
(* record it leaves.  A handler that indexes or slices out of range panics:  *)
(* the record it leaves has crashed = TRUE and is otherwise unspecified      *)
(* (kept as it was).  calls counts the rows updateHighlight recomputed.      *)

NoPrompt == [kind |-> "none"]

Ed ==
    [rows |-> rows, cx |-> cx, cy |-> cy, rowOffset |-> rowOffset,
     colOffset |-> colOffset, Mode |-> Mode, modified |-> modified,
     syntax |-> syntax, Keymapping |-> Keymapping, prompt |-> prompt,
     crashed |-> crashed, build |-> build, calls |-> 0, quit |-> FALSE,
     blocked |-> FALSE, ran |-> <<>>]

Crash(e) == [e EXCEPT !.crashed = TRUE]

NumRows(e) == Len(e.rows)

\* &Row{chars: chars}
NewRow(chars) ==
    [chars |-> chars, render |-> <<>>, hl |-> <<>>, hasUnclosedComment |-> FALSE]

InRows(e, y) == 0 <= y /\ y < Len(e.rows)

\* runewidth.RuneWidth: every rune of the model other than the tab is an
\* ASCII printable rune, of width 1.
RuneWidth(r) == 1

\* The render string of updateRow: each tab becomes one space and then
\* spaces up to the next tab stop.
RECURSIVE renderLoop(_, _, _)
renderLoop(chars, out, cols) ==
    IF chars = <<>> THEN out
    ELSE IF Head(chars) # "\t"
         THEN renderLoop(Tail(chars), Append(out, Head(chars)),
                         cols + RuneWidth(Head(chars)))
         ELSE LET pad == Tabstop - (cols % Tabstop)
              IN renderLoop(Tail(chars), out \o [i \in 1..pad |-> " "], cols + pad)

\* updateHighlight on the rows alone: row y is recomputed and, when its
\* hasUnclosedComment changed and a next row exists, so is row y + 1.
\* The result is the rows and the number of rows recomputed.
RECURSIVE highlightFrom_twice(_, _, _)
\* The result of a recursion that recomputed r.calls rows, and its row
OneMore(r) == [rows |-> r.rows, calls |-> r.calls + 1]

highlightFrom_twice(syn, rs, y) ==
    LET Again(r) == [rows |-> r.rows, calls |-> r.calls + r.calls + 1]
        Put(new) ==
            IF rs[y + 1].hasUnclosedComment # new.hasUnclosedComment /\ y + 1 < Len(rs)
            THEN Again(highlightFrom_twice(syn, [rs EXCEPT ![y + 1] = new], y + 1))
            ELSE [rows |-> [rs EXCEPT ![y + 1] = new], calls |-> 1]
    IN Put(highlightRow(syn, rs, y))

RECURSIVE highlightFrom_noflag(_, _, _)
highlightFrom_noflag(syn, rs, y) ==
    LET Put(new) ==
            LET kept == [rs EXCEPT ![y + 1] = [new EXCEPT !.hasUnclosedComment =
                                                   rs[y + 1].hasUnclosedComment]]
            IN IF rs[y + 1].hasUnclosedComment # new.hasUnclosedComment
                  /\ y + 1 < Len(rs)
               THEN OneMore(highlightFrom_noflag(syn, kept, y + 1))
               ELSE [rows |-> kept, calls |-> 1]
    IN Put(highlightRow(syn, rs, y))

RECURSIVE highlightFrom_nopropagate(_, _, _)
highlightFrom_nopropagate(syn, rs, y) ==
    [rows |-> [rs EXCEPT ![y + 1] = highlightRow(syn, rs, y)], calls |-> 1]

RECURSIVE highlightFrom(_, _, _)
highlightFrom(syn, rs, y) ==
    LET Put(new) ==
            IF rs[y + 1].hasUnclosedComment # new.hasUnclosedComment /\ y + 1 < Len(rs)
            THEN OneMore(highlightFrom(syn, [rs EXCEPT ![y + 1] = new], y + 1))
            ELSE [rows |-> [rs EXCEPT ![y + 1] = new], calls |-> 1]
    IN Put(highlightRow(syn, rs, y))

updateHighlight(e, y) ==
    IF e.crashed THEN e
    ELSE IF ~InRows(e, y) THEN Crash(e)
    ELSE LET Set(r) == [e EXCEPT !.rows = r.rows, !.calls = e.calls + r.calls]
         IN Set(highlightFrom(e.syntax, e.rows, y))

updateRow_nohl(e, y) ==
    IF e.crashed THEN e
    ELSE IF ~InRows(e, y) THEN Crash(e)
    ELSE [e EXCEPT !.rows[y + 1].render = renderLoop(e.rows[y + 1].chars, <<>>, 0)]

updateRow(e, y) ==
    IF e.crashed THEN e
    ELSE IF ~InRows(e, y) THEN Crash(e)
    ELSE updateHighlight(
             [e EXCEPT !.rows[y + 1].render = renderLoop(e.rows[y + 1].chars, <<>>, 0)],
             y)

-----------------------------------------------------------------------------
(* Cursor: WrapCursorX, WrapCursorY, SetPosX, SetPosY are the same text in   *)
(* part_000, sdk.go and (the two Wrap functions) part_001.                   *)

WrapCursorX(e) ==
    IF e.crashed THEN e
    ELSE IF e.cx < 0 THEN [e EXCEPT !.cx = 0]
    ELSE IF Len(e.rows) = 0 THEN [e EXCEPT !.cx = 0]
    ELSE IF ~InRows(e, e.cy) THEN Crash(e)
    ELSE IF Len(e.rows[e.cy + 1].chars) = 0 THEN [e EXCEPT !.cx = 0]
    ELSE IF e.cx >= Len(e.rows[e.cy + 1].chars)
         THEN [e EXCEPT !.cx = Len(e.rows[e.cy + 1].chars)]
    ELSE e

WrapCursorY(e) ==
    IF e.crashed THEN e
    ELSE IF e.cy < 0 THEN [e EXCEPT !.cy = 0]
    ELSE IF Len(e.rows) = 0 THEN [e EXCEPT !.cy = 0]
    ELSE IF e.cy >= Len(e.rows) THEN [e EXCEPT !.cy = Len(e.rows) - 1]
    ELSE e

SetPosX(e, x) == WrapCursorX([e EXCEPT !.cx = x])

SetPosY(e, y) == WrapCursorY([e EXCEPT !.cy = y])

SetPosMaxY(e) == WrapCursorY([e EXCEPT !.cy = Len(e.rows)])

SetPosMaxX(e) ==
    LET ToEnd(w) ==
            IF w.crashed THEN w
            ELSE IF ~InRows(w, w.cy) THEN Crash(w)
            ELSE [w EXCEPT !.cx = Len(w.rows[w.cy + 1].chars)]
    IN ToEnd(WrapCursorY(e))

SetRelativePosY(e, y) == WrapCursorY([e EXCEPT !.cy = e.cy + y])

SetRelativePosX(e, x) == WrapCursorX([e EXCEPT !.cx = e.cx + x])

\* SetY and SetX of part_001
SetY(e, y) == [e EXCEPT !.cy = y]

SetX(e, x) == [e EXCEPT !.cx = x]

SetRowOffset(e, y) == [e EXCEPT !.rowOffset = IF y < 0 THEN 0 ELSE y]


-----------------------------------------------------------------------------
(* Row store *)

\* rs with row inserted so that it becomes the code's rs[at]
InsertAt(rs, at, row) == Head0(rs, at) \o <<row>> \o Tail0(rs, at)

\* rs without the code's rs[at]
RemoveAt(rs, at) == Head0(rs, at) \o Tail0(rs, at + 1)

\* The row InsertRow builds: its hasUnclosedComment is seeded from the row
\* above the insertion point.
SeededRow(e, at, chars) ==
    [NewRow(chars) EXCEPT !.hasUnclosedComment =
        at > 0 /\ e.rows[at].hasUnclosedComment]

InsertRow_p0(e, at, chars) ==
    IF e.crashed THEN e
    ELSE IF at < 0 \/ at > Len(e.rows) THEN e
    ELSE LET Adjust(e1) == IF at <= e1.cy THEN [e1 EXCEPT !.cy = e1.cy + 1] ELSE e1
         IN Adjust(updateRow(
                [e EXCEPT !.rows = InsertAt(e.rows, at, SeededRow(e, at, chars))], at))

InsertRow_sdk(e, at, chars) ==
    IF e.crashed THEN e
    ELSE IF at < 0 \/ at > Len(e.rows) THEN e
    ELSE LET Adjust(e1) == IF at < e1.cy THEN [e1 EXCEPT !.cy = e1.cy + 1] ELSE e1
         IN Adjust(updateRow(
                [e EXCEPT !.rows = InsertAt(e.rows, at, SeededRow(e, at, chars))], at))

\* part_001 checks no bound: e.rows[at-1] and e.rows[at+1:] panic out of range.
InsertRow_p1(e, at, chars) ==
    IF e.crashed THEN e
    ELSE IF at < 0 \/ at > Len(e.rows) THEN Crash(e)
    ELSE updateRow(
             [e EXCEPT !.rows = InsertAt(e.rows, at, SeededRow(e, at, chars))], at)

InsertRow(e, at, chars) ==
    CASE e.build = "p0" -> InsertRow_p0(e, at, chars)
      [] e.build = "sdk" -> InsertRow_sdk(e, at, chars)
      [] OTHER -> InsertRow_p1(e, at, chars)

DeleteRow_sdk(e, at) ==
    IF e.crashed THEN e
    ELSE IF at < 0 \/ Len(e.rows) <= at THEN e
    ELSE WrapCursorX(WrapCursorY(
             [e EXCEPT !.rows = RemoveAt(e.rows, at), !.modified = TRUE]))

\* part_001: append(e.rows[:at], e.rows[at+1:]...) and nothing else.
DeleteRow_p1(e, at) ==
    IF e.crashed THEN e
    ELSE IF at < 0 \/ Len(e.rows) <= at THEN Crash(e)
    ELSE [e EXCEPT !.rows = RemoveAt(e.rows, at)]

DeleteRow(e, at) ==
    IF e.build = "p1" THEN DeleteRow_p1(e, at) ELSE DeleteRow_sdk(e, at)

\* Row.insertChar: an out-of-range at appends.
insertChar(chars, at, c) ==
    LET a == IF at < 0 \/ at > Len(chars) THEN Len(chars) ELSE at
    IN Head0(chars, a) \o <<c>> \o Tail0(chars, a)

\* Row.deleteChar: an out-of-range at changes nothing.
deleteChar(chars, at) ==
    IF at < 0 \/ at >= Len(chars) THEN chars
    ELSE Head0(chars, at) \o Tail0(chars, at + 1)

\* InsertChar of part_000 and of sdk.go (the same text; InsertRow differs).
InsertChar(e, c) ==
    IF e.crashed THEN e
    ELSE LET Advance(e2) == [e2 EXCEPT !.cx = e2.cx + 1, !.modified = TRUE]
             Type(e1) ==
                 IF e1.crashed THEN e1
                 ELSE IF ~InRows(e1, e1.cy) THEN Crash(e1)
                 ELSE Advance(updateRow(
                          [e1 EXCEPT !.rows[e1.cy + 1].chars =
                              insertChar(e1.rows[e1.cy + 1].chars, e1.cx, c)], e1.cy))
         IN Type(IF e.cy = Len(e.rows) THEN InsertRow(e, Len(e.rows), <<>>) ELSE e)

\* DeleteChar of part_000 and of sdk.go (the same text).  The merge branch
\* appends to the previous row without updateRow, lets DeleteRow wrap the
\* cursor against the rows that are left, re-highlights the row that took
\* the deleted row's place, and then decrements cy.
DeleteChar(e) ==
    IF e.crashed THEN e
    ELSE IF e.cy = Len(e.rows) THEN e
    ELSE IF e.cx = 0 /\ e.cy = 0 THEN e
    ELSE IF ~InRows(e, e.cy) THEN Crash(e)
    ELSE IF e.cx > 0
    THEN LET Retreat(e1) == [e1 EXCEPT !.cx = e1.cx - 1, !.modified = TRUE]
         IN Retreat(updateRow(
                [e EXCEPT !.rows[e.cy + 1].chars =
                    deleteChar(e.rows[e.cy + 1].chars, e.cx - 1)], e.cy))
    ELSE LET Up(e3) == IF e3.crashed THEN e3 ELSE [e3 EXCEPT !.cy = e3.cy - 1]
             Rehighlight(e2) == Up(updateHighlight(e2, e2.cy))
         IN Rehighlight(DeleteRow_sdk(
                [e EXCEPT !.cx = Len(e.rows[e.cy].chars),
                          !.rows[e.cy].chars = @ \o e.rows[e.cy + 1].chars], e.cy))

\* part_001: the row is e.rows[e.cy], the column is the parameter x; the
\* cursor and the modified flag are left alone.
InsertChars_p1(e, y, x, chars) ==
    IF e.crashed THEN e
    ELSE LET Splice(e1) ==
                 IF e1.crashed THEN e1
                 ELSE IF ~InRows(e1, e1.cy) THEN Crash(e1)
                 ELSE IF x < 0 \/ x > Len(e1.rows[e1.cy + 1].chars) THEN Crash(e1)
                 ELSE updateRow(
                          [e1 EXCEPT !.rows[e1.cy + 1].chars =
                              Head0(@, x) \o chars \o Tail0(@, x)], e1.cy)
         IN Splice(IF e.cy = Len(e.rows) THEN InsertRow_p1(e, Len(e.rows), <<>>) ELSE e)

\* part_001: append(row[:x1], row[x2+1:]...)
Delete_p1(e, y, x1, x2) ==
    IF e.crashed THEN e
    ELSE IF ~InRows(e, y) THEN Crash(e)
    ELSE IF x1 < 0 \/ x1 > Len(e.rows[y + 1].chars)
            \/ x2 + 1 < 0 \/ x2 + 1 > Len(e.rows[y + 1].chars) THEN Crash(e)
    ELSE updateRow(
             [e EXCEPT !.rows[y + 1].chars = Head0(@, x1) \o Tail0(@, x2 + 1)], y)

\* SetRow of part_000 and of sdk.go (the same text): at = len(rows) passes
\* the check and indexes out of range.
SetRow_sdk(e, at, chars) ==
    IF e.crashed THEN e
    ELSE IF at < 0 \/ at > Len(e.rows) THEN e
    ELSE IF ~InRows(e, at) THEN Crash(e)
    ELSE updateRow([e EXCEPT !.rows[at + 1].chars = chars], at)

SetRow_p1(e, at, chars) ==
    IF e.crashed THEN e
    ELSE IF ~InRows(e, at) THEN Crash(e)
    ELSE updateRow([e EXCEPT !.rows[at + 1].chars = chars], at)

SetRow(e, at, chars) ==
    IF e.build = "p1" THEN SetRow_p1(e, at, chars) ELSE SetRow_sdk(e, at, chars)

\* mini.go; InsertRow is the linked snapshot's.
InsertNewline(e) ==
    IF e.crashed THEN e
    ELSE LET Down(e1) ==
                 IF e1.crashed THEN e1 ELSE [e1 EXCEPT !.cy = e1.cy + 1, !.cx = 0]
             Truncate(e2) ==
                 IF e2.crashed THEN e2
                 ELSE IF ~InRows(e2, e2.cy) \/ e2.cx > Len(e2.rows[e2.cy + 1].chars)
                      THEN Crash(e2)
                 ELSE updateRow(
                          [e2 EXCEPT !.rows[e2.cy + 1].chars = Head0(@, e2.cx)], e2.cy)
         IN Down(IF e.cx = 0 THEN InsertRow(e, e.cy, <<>>)
                 ELSE IF ~InRows(e, e.cy) THEN Crash(e)
                 ELSE IF e.cx > Len(e.rows[e.cy + 1].chars) THEN Crash(e)
                 ELSE Truncate(InsertRow(e, e.cy + 1,
                                         Tail0(e.rows[e.cy + 1].chars, e.cx))))


-----------------------------------------------------------------------------
(* Viewport: src/mini.go.  The screen size is read from the terminal.        *)

ScreenRows == 2
ScreenCols == 3

\* rowCxToRx: the render column of chars[cx]
RECURSIVE rowCxToRx(_, _)
rowCxToRx(chars, n) ==
    IF n = 0 THEN 0
    ELSE LET Add(rx) == IF chars[n] = "\t" THEN rx + (Tabstop - (rx % Tabstop))
                        ELSE rx + RuneWidth(chars[n])
         IN Add(rowCxToRx(chars, n - 1))

\* e.rx as scroll computes it
Rx(e) ==
    IF e.cy < Len(e.rows) THEN rowCxToRx(e.rows[e.cy + 1].chars, e.cx) ELSE 0

\* A scroll that never moves the window down or to the right
scroll_up(e) ==
    IF e.crashed THEN e
    ELSE [e EXCEPT !.rowOffset = IF e.cy < e.rowOffset THEN e.cy ELSE e.rowOffset,
                   !.colOffset = IF Rx(e) < e.colOffset THEN Rx(e) ELSE e.colOffset]

\* A scroll that puts the cursor in the top left corner of the window
scroll_corner(e) ==
    IF e.crashed THEN e
    ELSE [e EXCEPT !.rowOffset = e.cy, !.colOffset = Rx(e)]

scroll(e) ==
    IF e.crashed THEN e
    ELSE IF e.cy < 0 THEN Crash(e)
    ELSE IF e.cy < Len(e.rows) /\ (e.cx < 0 \/ e.cx > Len(e.rows[e.cy + 1].chars))
         THEN Crash(e)
    ELSE LET Right(rx, co1) == IF rx >= co1 + ScreenCols THEN rx - ScreenCols + 1 ELSE co1
             Left(rx) == Right(rx, IF rx < e.colOffset THEN rx ELSE e.colOffset)
             Below(ro1) == IF e.cy >= ro1 + ScreenRows THEN e.cy - ScreenRows + 1 ELSE ro1
         IN [e EXCEPT !.rowOffset = Below(IF e.cy < e.rowOffset THEN e.cy ELSE e.rowOffset),
                      !.colOffset = Left(Rx(e))]

\* Render, as far as it changes the editor: the cursor is wrapped, then the
\* viewport is scrolled.
RenderEd(e) == scroll(WrapCursorX(WrapCursorY(e)))

ScreenTop(e) == e.rowOffset + 1

ScreenBottom(e) == e.rowOffset + ScreenRows - 1

CenterCursor(e) ==
    [e EXCEPT !.rowOffset = Max(0, e.cy - (ScreenRows \div 2))]

-----------------------------------------------------------------------------
(* Modes and key-map chain *)

\* position (from 1) of the first key-map of the chain named name, 0 if none
IndexOfMap(chain, name) ==
    LET First(hits) == IF hits = {} THEN 0 ELSE Least(hits)
    IN First({i \in 1..Len(chain) : chain[i] = name})

\* A SetMode that installs the chain of the mode afresh
SetMode_all(e, m) ==
    [e EXCEPT !.Mode = m,
              !.Keymapping = <<IF m = InsertMode THEN InsertModeName
                               ELSE CommandModeName>>]

\* SetMode of part_000, sdk.go and part_001 (the same text)
SetMode(e, m) ==
    LET from == IF m = InsertMode THEN CommandModeName ELSE InsertModeName
        to == IF m = InsertMode THEN InsertModeName ELSE CommandModeName
        Swap(i) == IF i = 0 THEN [e EXCEPT !.Mode = m]
                   ELSE [e EXCEPT !.Mode = m, !.Keymapping[i] = to]
    IN Swap(IndexOfMap(e.Keymapping, from))

-----------------------------------------------------------------------------
(* Word motions *)

\* Find of part_001: the first index (from 0) of s whose rune is in the
\* class, -1 if none.  spaces = TRUE looks for a space, FALSE for a non-space.
FindRune(s, spaces) ==
    LET First(hits) == IF hits = {} THEN -1 ELSE Least(hits) - 1
    IN First({i \in 1..Len(s) : IsSpace(s[i]) = spaces})

\* A Word that stays where it is when no word begins to the right
Word_p1_stay(e) ==
    IF ~InRows(e, e.cy) THEN -2
    ELSE LET row == e.rows[e.cy + 1].chars
             x == e.cx
         IN IF x < 0 \/ x > Len(row) THEN -2
            ELSE LET WordStart(i, j) == IF j = -1 THEN x ELSE x + i + j
                     SpaceAhead(i) ==
                         IF i = -1 THEN x
                         ELSE WordStart(i, FindRune(Tail0(row, x + i), FALSE))
                 IN SpaceAhead(FindRune(Tail0(row, x), TRUE))

\* Word of part_001: the column 'w' moves to.  -2 stands for a panic.
Word_p1(e) ==
    IF ~InRows(e, e.cy) THEN -2
    ELSE LET row == e.rows[e.cy + 1].chars
             x == e.cx
         IN IF x < 0 \/ x > Len(row) THEN -2
            ELSE LET WordStart(i, j) == IF j = -1 THEN Len(row) ELSE x + i + j
                     SpaceAhead(i) ==
                         IF i = -1 THEN Len(row)
                         ELSE WordStart(i, FindRune(Tail0(row, x + i), FALSE))
                 IN SpaceAhead(FindRune(Tail0(row, x), TRUE))

\* FindRight of part_000 and sdk.go, with the two predicates the callers
\* pass: [i, ok], the first column at or after the cursor whose rune is (is
\* not) a blank or a tab.
FindRight(e, spaces) ==
    LET row == e.rows[e.cy + 1].chars
        First(hits) == IF hits = {} THEN [i |-> Len(row), ok |-> FALSE]
                       ELSE [i |-> Least(hits), ok |-> TRUE]
    IN First({i \in e.cx..(Len(row) - 1) : (row[i + 1] \in {" ", "\t"}) = spaces})

\* ForwardWord of the key-maps of part_001
ForwardWord_k1(e) ==
    IF e.crashed THEN e
    ELSE IF ~InRows(e, e.cy) \/ e.cx < 0 THEN Crash(e)
    ELSE LET ToWord(e1) == SetPosX(e1, FindRight(e1, FALSE).i)
             ToSpace(f) == IF ~f.ok THEN SetPosX(e, Len(e.rows[e.cy + 1].chars))
                           ELSE ToWord(SetPosX(e, f.i))
         IN ToSpace(FindRight(e, TRUE))


-----------------------------------------------------------------------------
(* Keys.  A printable key is the rune it types.                              *)

PrintableKeys ==
    {"a", "b", "c", "d", "e", "f", "h", "i", "j", "k", "l", "n", "o", "q", "r",
     "t", "u", "w", "x", "G", "D", "C", "0", "1", "$", " ", "/", "*", "\""}

isPrintable(k) == k \in PrintableKeys

-----------------------------------------------------------------------------
(* Search *)

\* Does query match text at index i (from 0), all of it inside text?
MatchesAt(text, query, i) ==
    /\ i + Len(query) <= Len(text)
    /\ \A j \in 1..Len(query) : text[i + j] = query[j]

\* Does the comparison at index i read text[len(text)] before it finds a
\* difference?
OverrunsAt(text, query, i) ==
    /\ i + Len(query) > Len(text)
    /\ \A j \in 1..(Len(text) - i) : text[i + j] = query[j]

\* findSubstring of part_000 and sdk.go (the same text): i runs over every
\* index of text and text[i+j] is read unchecked.  [idx, panic].
findSubstring_sdk(text, query) ==
    LET At(i) == IF MatchesAt(text, query, i) THEN [idx |-> i, panic |-> FALSE]
                 ELSE [idx |-> -1, panic |-> TRUE]
        First(stops) == IF stops = {} THEN [idx |-> -1, panic |-> FALSE]
                        ELSE At(Least(stops))
    IN First({i \in 0..(Len(text) - 1) :
                 MatchesAt(text, query, i) \/ OverrunsAt(text, query, i)})

\* findSubstring of part_001: the first index at which query occurs, or -1.
findSubstring_p1(text, query) ==
    LET First(hits) == IF Len(text) < Len(query) \/ hits = {} THEN -1
                       ELSE Least(hits)
    IN First({i \in 0..(Len(text) - Len(query)) : MatchesAt(text, query, i)})

\* findSubstring of part_001 on a slice with spare elements of capacity
\* behind its length: text[:len(text)-len(query)+1] is past the length when
\* the query is empty, and past the capacity when nothing is spare.
\* [idx, panic]
findSubstring_p1cap(text, query, spare) ==
    IF Len(text) >= Len(query) /\ Len(text) - Len(query) + 1 > Len(text) + spare
    THEN [idx |-> -1, panic |-> TRUE]
    ELSE [idx |-> findSubstring_p1(text, query), panic |-> FALSE]

\* Find(x1, y1, query) of part_001: [x, y, panic]
Find_p1(e, x1, y1, query) ==
    IF ~InRows(e, y1) THEN [x |-> -1, y |-> -1, panic |-> TRUE]
    ELSE IF x1 < 0 \/ x1 > Len(e.rows[y1 + 1].chars)
         THEN [x |-> -1, y |-> -1, panic |-> TRUE]
    ELSE LET InRow(y) == [x |-> findSubstring_p1(e.rows[y + 1].chars, query),
                          y |-> y, panic |-> FALSE]
             Below(later) == IF later = {} THEN [x |-> -1, y |-> -1, panic |-> FALSE]
                             ELSE InRow(Least(later))
             Here(x) == IF x # -1 THEN [x |-> x1 + x, y |-> y1, panic |-> FALSE]
                        ELSE Below({y \in (y1 + 1)..(Len(e.rows) - 1) :
                                       findSubstring_p1(e.rows[y + 1].chars, query) # -1})
         IN Here(findSubstring_p1(Tail0(e.rows[y1 + 1].chars, x1), query))

\* The capacity of the rune slice the conversion []rune(string(line)) of
\* OpenFile allocates for n runes: 4n bytes rounded up to the allocator's
\* size class.
RuneCap(n) ==
    LET classes == {0, 8, 16, 24, 32, 48, 64}
    IN Least({c \in classes : c >= 4 * n}) \div 4

\* Find(x1, y1, query) of part_001 on rows as OpenFile allocated them: the
\* slice chars[x1:] of row y1 has the spare capacity of the row.
Find_p1cap(e, x1, y1, query) ==
    IF ~InRows(e, y1) THEN Find_p1(e, x1, y1, query)
    ELSE IF x1 < 0 \/ x1 > Len(e.rows[y1 + 1].chars) THEN Find_p1(e, x1, y1, query)
    ELSE IF findSubstring_p1cap(
                Tail0(e.rows[y1 + 1].chars, x1), query,
                RuneCap(Len(e.rows[y1 + 1].chars)) - Len(e.rows[y1 + 1].chars)).panic
         THEN [x |-> -1, y |-> -1, panic |-> TRUE]
    ELSE Find_p1(e, x1, y1, query)

\* The variables the search callbacks capture, and the chain Prompt keeps.
SearchPrompt(kind, e) ==
    [kind |-> kind, savedCx |-> e.cx, savedCy |-> e.cy,
     savedColOffset |-> e.colOffset, savedRowOffset |-> e.rowOffset,
     query |-> <<>>, found |-> FALSE, backup |-> e.Keymapping]

\* "restore cursor position when the user cancels search"
Restore(e) ==
    [e EXCEPT !.cx = e.prompt.savedCx, !.cy = e.prompt.savedCy,
              !.colOffset = e.prompt.savedColOffset,
              !.rowOffset = e.prompt.savedRowOffset]

\* onKeyPress of Find in part_000 and sdk.go (the same text): [e, finished]
FindOnKeyPress_sdk(e, k) ==
    IF k = "Esc" THEN [e |-> e, finished |-> TRUE]
    ELSE IF k \in {"Enter", "CR"}
         THEN [e |-> [e EXCEPT !.prompt.found = TRUE], finished |-> TRUE]
    ELSE
    LET Stops(f) == f.idx # -1 \/ f.panic
        Jump(query, y, f) ==
            IF f.panic \/ f.idx + Len(query) > Len(e.rows[y + 1].hl)
            THEN [e |-> Crash([e EXCEPT !.prompt.query = query]), finished |-> FALSE]
            ELSE [e |-> SetRowOffset(
                          [e EXCEPT !.prompt.query = query, !.cy = y, !.cx = f.idx,
                                    !.rows[y + 1].hl =
                                        Paint(@, f.idx, f.idx + Len(query), hlMatch)],
                          y - (ScreenRows \div 2)),
                  finished |-> FALSE]
        InRow(query, y) == Jump(query, y, findSubstring_sdk(e.rows[y + 1].chars, query))
        Scan(query, stops) ==
            IF stops = {}
            THEN [e |-> [e EXCEPT !.prompt.query = query], finished |-> FALSE]
            ELSE InRow(query, Least(stops))
        Search(query) ==
            IF e.cy < 0 \/ e.cy > Len(e.rows)
            THEN [e |-> Crash([e EXCEPT !.prompt.query = query]), finished |-> FALSE]
            ELSE Scan(query, {y \in e.cy..(Len(e.rows) - 1) :
                                 Stops(findSubstring_sdk(e.rows[y + 1].chars, query))})
        Edit(q) == Search(IF k \in {"Delete", "Backspace"}
                          THEN (IF Len(q) # 0 THEN Head0(q, Len(q) - 1) ELSE q)
                          ELSE IF isPrintable(k) THEN Append(q, k) ELSE q)
    IN Edit(e.prompt.query)

\* What Find does once Prompt has returned
FindAfterPrompt(e) ==
    LET Settle(e1) == IF e1.crashed THEN e1
                      ELSE IF ~e1.prompt.found THEN Restore(e1) ELSE e1
    IN Settle(updateRow(e, e.cy))

\* Find of part_000: Prompt blocks in its own read loop until the callback
\* reports finished; FindAfterPrompt runs then.
Find_p0(e) == [e EXCEPT !.prompt = SearchPrompt("Find_p0", e)]

\* Prompt of sdk.go and part_001: the chain is kept in backup and replaced
\* by the prompt's key-map, the mode is set, and Prompt returns.
Prompt_install(e, p) ==
    SetMode([e EXCEPT !.prompt = p, !.Keymapping = <<PromptModeName>>], PromptMode)

\* Find of sdk.go: Prompt returns at once, so what follows it runs before
\* any key of the search is read.
Find_sdk(e) ==
    IF e.crashed THEN e
    ELSE FindAfterPrompt(Prompt_install(e, SearchPrompt("Find_sdk", e)))

\* onKeyPress of FindInteractive in part_001: [e, finished].  The rows have
\* the capacity OpenFile gives a row of their length.
FindInteractiveOnKeyPress(e, k) ==
    IF k \in {"Esc", "Ctrl-Q"} THEN [e |-> Restore(e), finished |-> TRUE]
    ELSE IF k \in {"Enter", "CR"} THEN [e |-> e, finished |-> TRUE]
    ELSE
    LET trim == k \in {"Delete", "Backspace"} /\ Len(e.prompt.query) # 0
        Jump(e1, f) ==
            IF f.panic THEN [e |-> Crash(e1), finished |-> FALSE]
            ELSE IF f.x = -1 THEN [e |-> Restore(e1), finished |-> FALSE]
            ELSE [e |-> SetRowOffset([e1 EXCEPT !.cy = f.y, !.cx = f.x],
                                     f.y - (ScreenRows \div 2)),
                  finished |-> FALSE]
        Search(e1) == Jump(e1, Find_p1cap(e1, e1.cx, e1.cy, e1.prompt.query))
        Edit(q) ==
            Search([e EXCEPT !.prompt.query =
                                 IF trim THEN Head0(q, Len(q) - 1)
                                 ELSE IF k \notin {"Delete", "Backspace"} /\ isPrintable(k)
                                      THEN Append(q, k) ELSE q,
                             !.cx = IF trim THEN e.prompt.savedCx ELSE e.cx,
                             !.cy = IF trim THEN e.prompt.savedCy ELSE e.cy])
    IN Edit(e.prompt.query)

FindInteractive_p1(e) ==
    IF e.crashed THEN e
    ELSE Prompt_install(e, SearchPrompt("FindInteractive", e))

\* onKeyPress of Find in the oldest snapshot (src/sdk.go:174-248): a match
\* in rows[cy+i] sets cy to i, and rowOffset to len(rows) for scroll to pull
\* back; the carriage return is not a case of its switch.
FindOnKeyPress_a(e, k) ==
    IF k = "Esc" THEN [e |-> e, finished |-> TRUE]
    ELSE IF k = "Enter"
         THEN [e |-> [e EXCEPT !.prompt.found = TRUE], finished |-> TRUE]
    ELSE
    LET Stops(f) == f.idx # -1 \/ f.panic
        Jump(query, y, f) ==
            IF f.panic
            THEN [e |-> Crash([e EXCEPT !.prompt.query = query]), finished |-> FALSE]
            ELSE [e |-> [e EXCEPT !.prompt.query = query, !.cy = y - e.cy,
                                  !.cx = f.idx, !.rowOffset = Len(e.rows)],
                  finished |-> FALSE]
        InRow(query, y) == Jump(query, y, findSubstring_sdk(e.rows[y + 1].chars, query))
        Scan(query, stops) ==
            IF stops = {}
            THEN [e |-> [e EXCEPT !.prompt.query = query], finished |-> FALSE]
            ELSE InRow(query, Least(stops))
        Search(query) ==
            IF e.cy < 0 \/ e.cy > Len(e.rows)
            THEN [e |-> Crash([e EXCEPT !.prompt.query = query]), finished |-> FALSE]
            ELSE Scan(query, {y \in e.cy..(Len(e.rows) - 1) :
                                 Stops(findSubstring_sdk(e.rows[y + 1].chars, query))})
        Edit(q) == Search(IF k \in {"Delete", "Backspace"}
                          THEN (IF Len(q) # 0 THEN Head0(q, Len(q) - 1) ELSE q)
                          ELSE IF isPrintable(k) THEN Append(q, k) ELSE q)
    IN Edit(e.prompt.query)

Find_a(e) == [e EXCEPT !.prompt = SearchPrompt("Find_a", e)]

\* A ctrl-q prompt whose second ctrl-q quits in both sets of key-maps
QuitOnKeyPress_quits(e, k) ==
    [e |-> IF k = "Ctrl-Q" THEN [e EXCEPT !.quit = TRUE] ELSE e, finished |-> TRUE]

\* The callback of the ctrl-q prompt: any other key ends the prompt.  On a
\* second ctrl-q part_001:676-697 sets quit and the handler returns
\* ErrQuitEditor; src/config.go:267-269 sends ErrQuitEditor on e.ErrChan(),
\* a channel no statement makes and none receives from, and the send on a nil
\* channel never returns.
QuitOnKeyPress(e, k) ==
    IF k # "Ctrl-Q" THEN [e |-> e, finished |-> TRUE]
    ELSE IF e.prompt.kind = "Quit_p0"
    THEN [e |-> [e EXCEPT !.quit = TRUE], finished |-> TRUE]
    ELSE [e |-> [e EXCEPT !.blocked = TRUE], finished |-> FALSE]

\* The callback of the installed prompt
PromptCallback(e, k) ==
    CASE e.prompt.kind = "FindInteractive" -> FindInteractiveOnKeyPress(e, k)
      [] e.prompt.kind = "Find_a" -> FindOnKeyPress_a(e, k)
      [] e.prompt.kind \in {"Quit", "Quit_p0"} -> QuitOnKeyPress(e, k)
      [] OTHER -> FindOnKeyPress_sdk(e, k)

\* A prompt handler that installs the chain of Command mode when finished
promptHandler_command(e, k) ==
    LET After(r) ==
            IF r.e.crashed THEN [e |-> r.e, handled |-> FALSE]
            ELSE IF r.finished
                 THEN [e |-> [r.e EXCEPT !.Keymapping =
                                             <<BasicMapName, CommandModeName>>,
                                         !.prompt = NoPrompt],
                       handled |-> TRUE]
                 ELSE [e |-> r.e, handled |-> FALSE]
    IN After(PromptCallback(e, k))

\* A prompt handler that puts the cursor back whenever the prompt finishes
promptHandler_back(e, k) ==
    LET After(r) ==
            IF r.e.crashed THEN [e |-> r.e, handled |-> FALSE]
            ELSE IF r.finished
                 THEN [e |-> [Restore(r.e) EXCEPT !.Keymapping = r.e.prompt.backup,
                                                  !.prompt = NoPrompt],
                       handled |-> TRUE]
                 ELSE [e |-> r.e, handled |-> FALSE]
    IN After(PromptCallback(e, k))

\* The handler of the key-map Prompt installs (sdk.go, part_001): the chain
\* is restored when the callback reports finished.
promptHandler(e, k) ==
    LET After(r) ==
            IF r.e.crashed THEN [e |-> r.e, handled |-> FALSE]
            ELSE IF r.finished
                 THEN [e |-> [r.e EXCEPT !.Keymapping = r.e.prompt.backup,
                                         !.prompt = NoPrompt],
                       handled |-> TRUE]
                 ELSE [e |-> r.e, handled |-> FALSE]
    IN After(PromptCallback(e, k))

\* One turn of the read loop of the blocking Prompt of part_000, after its
\* Render and readKey: the callback, and the rest of Find when it finished.
blockingPromptKey(e, k) ==
    LET After(r) ==
            IF r.e.crashed THEN r.e
            ELSE IF r.finished
                 THEN IF e.prompt.kind = "Quit_p0" THEN [r.e EXCEPT !.prompt = NoPrompt]
                      ELSE [FindAfterPrompt(r.e) EXCEPT !.prompt = NoPrompt]
            ELSE r.e
    IN After(PromptCallback(e, k))


-----------------------------------------------------------------------------
(* Backward word motions and the deletions of ctrl-w *)

\* FindLeft of part_000 and sdk.go: [i, ok, panic]
FindLeft(e, x, y, spaces) ==
    IF ~InRows(e, y) THEN [i |-> 0, ok |-> FALSE, panic |-> TRUE]
    ELSE LET chars == e.rows[y + 1].chars
             Last(hits) ==
                 IF hits = {} THEN [i |-> 0, ok |-> FALSE, panic |-> FALSE]
                 ELSE [i |-> Greatest(hits), ok |-> TRUE, panic |-> FALSE]
         IN IF x - 1 >= Len(chars) /\ x - 1 >= 0
            THEN [i |-> 0, ok |-> FALSE, panic |-> TRUE]
            ELSE Last({i \in 0..(x - 1) :
                          i < Len(chars) /\ IsSpace(chars[i + 1]) = spaces})

\* BackWord beside the first key-maps (part_001:884-903); -2 for a panic
BackWord_k1(e) ==
    LET x == e.cx
        y == e.cy
        Third(b, c) == IF b.panic \/ c.panic THEN -2 ELSE c.i
        Second(b) == Third(b, FindLeft(e, b.i, y, TRUE))
        First(a) == IF a.panic THEN -2
                    ELSE IF a.i # x - 1 THEN a.i
                    ELSE Second(FindLeft(e, a.i, y, FALSE))
    IN First(FindLeft(e, x, y, TRUE))

\* FindLeft of part_001 on a slice: the last index whose rune is in the
\* class, -1 if none
FindRuneLeft(s, spaces) ==
    LET Last(hits) == IF hits = {} THEN -1 ELSE Greatest(hits) - 1
    IN Last({i \in 1..Len(s) : IsSpace(s[i]) = spaces})

\* BackWord of part_001:161-185; -2 for a panic
BackWord_p1(e) ==
    IF ~InRows(e, e.cy) THEN -2
    ELSE LET chars == e.rows[e.cy + 1].chars
             x == e.cx
         IN IF x < 0 \/ x > Len(chars) THEN -2
            ELSE LET Third(i3) == IF i3 = -1 THEN 0 ELSE i3 + 1
                     Second(i2) == IF i2 = -1 THEN 0
                                   ELSE Third(FindRuneLeft(Head0(chars, i2), TRUE))
                     First(i) == IF i = -1 THEN 0
                                 ELSE IF i # x - 1 THEN i + 1
                                 ELSE Second(FindRuneLeft(Head0(chars, x), FALSE))
                 IN First(FindRuneLeft(Head0(chars, x), TRUE))

\* DeleteUntil of part_000
DeleteUntil(e, x) ==
    IF e.crashed THEN e
    ELSE IF ~InRows(e, e.cy) THEN Crash(e)
    ELSE LET chars == e.rows[e.cy + 1].chars
         IN IF x < 0 \/ x > Len(chars) \/ e.cx < 0 \/ e.cx > Len(chars) THEN Crash(e)
            ELSE updateRow(
                     [e EXCEPT !.rows[e.cy + 1].chars = Head0(chars, x) \o Tail0(chars, e.cx),
                               !.cx = x], e.cy)


-----------------------------------------------------------------------------
(* Key-maps.  A handler leaves [e, handled].  The handlers of ctrl-s,        *)
(* ctrl-e and ctrl-r do file and process I/O and are not modelled; those    *)
(* keys are never pressed.                                                   *)

Handled(e) == [e |-> e, handled |-> TRUE]

NotHandled(e) == [e |-> e, handled |-> FALSE]

\* SetPosX(x) where x came from a word motion that may have panicked
SetPosXOrPanic(e, x) == IF x = -2 THEN Crash(e) ELSE SetPosX(e, x)

\* The cursor and scroll entries, the same text in both basicMapping tables
basicCursorKeys ==
    {"PageUp", "PageDown", "Up", "Down", "Left", "Right", "Ctrl-U", "Ctrl-D"}

basicCursor(e, k) ==
    CASE k = "PageUp" -> SetPosY(e, ScreenTop(e))
      [] k = "PageDown" -> SetPosY(e, ScreenBottom(e))
      [] k = "Up" -> SetPosY(e, e.cy - 1)
      [] k = "Down" -> SetPosY(e, e.cy + 1)
      [] k = "Left" -> SetPosX(e, e.cx - 1)
      [] k = "Right" -> SetPosX(e, e.cx + 1)
      [] k = "Ctrl-U" -> CenterCursor(SetPosY(e, e.cy - (ScreenRows \div 2)))
      [] OTHER -> CenterCursor(SetPosY(e, e.cy + (ScreenRows \div 2)))

\* basicMapping of part_001:648-762, linked with part_000
basicHandler_k1(e, k) ==
    IF k = "Backspace" THEN Handled(DeleteChar(e))
    ELSE IF k \in basicCursorKeys THEN Handled(basicCursor(e, k))
    ELSE IF k = "Ctrl-Q"
         THEN IF e.modified THEN Handled([e EXCEPT !.prompt = SearchPrompt("Quit_p0", e)])
              ELSE Handled([e EXCEPT !.quit = TRUE])
    ELSE IF k = "Ctrl-F" THEN Handled(Find_p0(e))
    ELSE IF k = "Ctrl-W"
         THEN LET Until(x) == IF x = -2 THEN Crash(e) ELSE DeleteUntil(e, x)
              IN Handled(Until(BackWord_k1(e)))
    ELSE NotHandled(e)

\* insertModeHandler and insertModeMapping of part_001:769-793
insertModeHandler_k1(e, k) ==
    IF k \in {"Enter", "CR"} THEN Handled(InsertNewline(e))
    ELSE IF k = "Ctrl-C" THEN Handled(SetMode(e, CommandMode))
    ELSE Handled(InsertChar(e, k))

\* The entries that are the same text in both commandModeMapping tables
commandCommonKeys == {"j", "k", "h", "l", "i", "o", "0", "$", "G", "D", "C"}

commandCommon(e, k) ==
    CASE k = "j" -> SetPosY(e, e.cy + 1)
      [] k = "k" -> SetPosY(e, e.cy - 1)
      [] k = "h" -> SetPosX(e, e.cx - 1)
      [] k = "l" -> SetPosX(e, e.cx + 1)
      [] k = "i" -> SetMode(e, InsertMode)
      [] k = "o" -> LET Onto(e1) == SetMode(SetPosY(e1, e1.cy + 1), InsertMode)
                    IN Onto(InsertRow(e, e.cy + 1, <<>>))
      [] k = "0" -> SetPosX(e, 0)
      [] k = "$" -> SetPosMaxX(e)
      [] k = "G" -> SetPosMaxY(e)
      [] k = "D" -> DeleteRow(e, e.cy)
      [] OTHER -> SetRow(e, e.cy, <<>>)

\* commandModeHandler and commandModeMapping of part_001:800-864
commandModeHandler_k1(e, k) ==
    IF k \in commandCommonKeys THEN Handled(commandCommon(e, k))
    ELSE IF k = "w" THEN Handled(ForwardWord_k1(e))
    ELSE IF k = "b" THEN Handled(SetPosXOrPanic(e, BackWord_k1(e)))
    ELSE NotHandled(e)

\* basicMapping of config.go:227-332.  Delete, BackWord are part_001's;
\* Find is sdk.go's where that is linked and FindInteractive otherwise.
basicHandler_k2(e, k) ==
    IF k = "Backspace"
    THEN LET x == e.cx
         IN Handled(SetPosX(IF x # 0 THEN Delete_p1(e, e.cy, x - 1, x - 1) ELSE e,
                            x - 1))
    ELSE IF k \in basicCursorKeys THEN Handled(basicCursor(e, k))
    ELSE IF k = "Ctrl-Q"
         THEN IF e.modified THEN Handled(Prompt_install(e, SearchPrompt("Quit", e)))
              ELSE Handled([e EXCEPT !.quit = TRUE])
    ELSE IF k = "Ctrl-F"
         THEN Handled(IF e.build = "sdk" THEN Find_sdk(e) ELSE FindInteractive_p1(e))
    ELSE IF k = "Ctrl-W"
         THEN LET Until(x) == IF x = -2 THEN Crash(e)
                              ELSE Delete_p1(e, e.cy, x, e.cx - 1)
              IN Handled(Until(BackWord_p1(e)))
    ELSE NotHandled(e)

\* insertModeHandler and insertModeMapping of config.go:339-363
insertModeHandler_k2(e, k) ==
    IF k \in {"Enter", "CR"} THEN Handled(InsertRow(e, e.cx, <<>>))
    ELSE IF k = "Ctrl-C" THEN Handled(SetMode(e, CommandMode))
    ELSE Handled(InsertChars_p1(e, e.cy, e.cx, <<k>>))

\* A command table that also binds x to the deletion of the row
commandModeHandler_x(e, k) ==
    IF k \in commandCommonKeys THEN Handled(commandCommon(e, k))
    ELSE IF k = "w" THEN Handled(SetPosXOrPanic(e, Word_p1(e)))
    ELSE IF k = "b" THEN Handled(SetPosXOrPanic(e, BackWord_p1(e)))
    ELSE IF k = "x" THEN Handled(DeleteRow(e, e.cy))
    ELSE NotHandled(e)

\* commandModeHandler and commandModeMapping of config.go:370-435
commandModeHandler_k2(e, k) ==
    IF k \in commandCommonKeys THEN Handled(commandCommon(e, k))
    ELSE IF k = "w" THEN Handled(SetPosXOrPanic(e, Word_p1(e)))
    ELSE IF k = "b" THEN Handled(SetPosXOrPanic(e, BackWord_p1(e)))
    ELSE NotHandled(e)

\* keymap.Handler of the key-map with the given name
Handler(e, name, k) ==
    CASE name = BasicMapName ->
            IF e.build = "p0" THEN basicHandler_k1(e, k) ELSE basicHandler_k2(e, k)
      [] name = InsertModeName ->
            IF e.build = "p0" THEN insertModeHandler_k1(e, k)
            ELSE insertModeHandler_k2(e, k)
      [] name = CommandModeName ->
            IF e.build = "p0" THEN commandModeHandler_k1(e, k)
            ELSE commandModeHandler_k2(e, k)
      [] OTHER -> promptHandler(e, k)

\* The loop of ProcessKey over the chain as it was when the loop began.
\* e.ran is the observer's record of the loop: for each handler that was
\* called, its key-map, what it reported and whether it changed the editor.
RECURSIVE ProcessChain_all(_, _, _)
ProcessChain_all(e, chain, k) ==
    IF chain = <<>> \/ e.crashed \/ e.quit \/ e.blocked THEN e
    ELSE LET Ran(r) == [name |-> Head(chain), handled |-> r.handled,
                        changed |-> r.e # e]
             Pass(r) == ProcessChain_all(r.e, Tail(chain), k)
             Note(r) == Pass([r EXCEPT !.e.ran = Append(@, Ran(r))])
         IN Note(Handler(e, Head(chain), k))

RECURSIVE ProcessChain(_, _, _)
ProcessChain(e, chain, k) ==
    IF chain = <<>> \/ e.crashed \/ e.quit \/ e.blocked THEN e
    ELSE LET Ran(r) == [name |-> Head(chain), handled |-> r.handled,
                        changed |-> r.e # e]
             Pass(r) == IF r.handled THEN r.e ELSE ProcessChain(r.e, Tail(chain), k)
             Note(r) == Pass([r EXCEPT !.e.ran = Append(@, Ran(r))])
         IN Note(Handler(e, Head(chain), k))

\* ctrl-f in the Keymapping switch of the oldest snapshot (src/config.go:33)
Keymapping_a(e, k) == IF k = "Ctrl-F" THEN Find_a(e) ELSE e

ProcessKey(e, k) ==
    IF e.build = "a" THEN Keymapping_a(e, k) ELSE ProcessChain(e, e.Keymapping, k)


-----------------------------------------------------------------------------
(* The main loop (src/mini.go:830-851): Render, then ProcessKey, for ever.  *)
(* pc is where the loop stands.  The blocking Prompt of part_000 and of the  *)
(* oldest snapshot runs the same two steps in its own loop, handing the key  *)
(* to its callback.                                                          *)

BlockingKinds == {"Find_p0", "Find_a", "Quit_p0"}

\* What the key read at this point of the program does
Step(e, k) ==
    IF e.prompt.kind \in BlockingKinds THEN blockingPromptKey(e, k)
    ELSE ProcessKey(e, k)

\* The loop of OpenFile (src/mini.go:523-532): each line is appended and
\* updateRow is called on it.
RECURSIVE OpenLoop(_, _, _)
OpenLoop(syn, rs, texts) ==
    IF texts = <<>> THEN rs
    ELSE LET row == [NewRow(Head(texts)) EXCEPT
                        !.render = renderLoop(Head(texts), <<>>, 0)]
         IN OpenLoop(syn, highlightFrom(syn, Append(rs, row), Len(rs)).rows,
                     Tail(texts))

\* The texts of the rows
Chars(rs) == [i \in 1..Len(rs) |-> rs[i].chars]

\* The loop of Save (src/mini.go:460-467): the runes of each row and a line
\* feed are written
RECURSIVE WriteLoop(_)
WriteLoop(texts) ==
    IF texts = <<>> THEN <<>>
    ELSE Head(texts) \o <<"\n">> \o WriteLoop(Tail(texts))

\* dropCR of bufio: a line loses one carriage return at its end
dropCR(line) ==
    IF Len(line) > 0 /\ line[Len(line)] = "\r" THEN Head0(line, Len(line) - 1)
    ELSE line

\* The tokens bufio.Scanner gives with ScanLines, its default split
\* function: the data is cut after each line feed, what follows the last
\* one is a line if it is not empty, and each line goes through dropCR.
RECURSIVE ScanLines(_)
ScanLines(data) ==
    IF data = <<>> THEN <<>>
    ELSE LET Cut(feeds) ==
                 IF feeds = {} THEN <<dropCR(data)>>
                 ELSE <<dropCR(Head0(data, Least(feeds) - 1))>>
                          \o ScanLines(Tail0(data, Least(feeds)))
         IN Cut({i \in 1..Len(data) : data[i] = "\n"})

\* The rows OpenFile builds from the bytes of the file
OpenFile(syn, data) == OpenLoop(syn, <<>>, ScanLines(data))

\* The key sequences of the scenarios that are followed from the start
Scenarios ==
    { <<"Ctrl-F", "b", "a", "r", "Esc">>, <<"w", "w", "w">> }

IsPrefix(s, t) == Len(s) <= Len(t) /\ \A i \in 1..Len(s) : s[i] = t[i]

OffTrack == <<"off">>

\* The keys pressed since the start while they are the beginning of a
\* scenario, OffTrack after that
NextTrace(trace, k) ==
    IF trace # OffTrack /\ \E sc \in Scenarios : IsPrefix(Append(trace, k), sc)
    THEN Append(trace, k)
    ELSE OffTrack

\* What hist keeps of a key: the runes that are only ever typed as text are
\* one class, the keys that only move the cursor another, every other key
\* is itself.
TextRunes == {"a", "b", "r", "x", "/", "*", "\"", " ", "1"}

MoveKeys ==
    {"j", "k", "h", "l", "0", "$", "G", "Up", "Down", "Left", "Right",
     "PageUp", "PageDown", "Ctrl-U", "Ctrl-D"}

KeyClass(k) ==
    IF k \in TextRunes THEN "rune"
    ELSE IF k \in MoveKeys THEN "move"
    ELSE k

\* The editor e becomes the state
Commit(e) ==
    /\ rows' = e.rows
    /\ cx' = e.cx
    /\ cy' = e.cy
    /\ rowOffset' = e.rowOffset
    /\ colOffset' = e.colOffset
    /\ Mode' = e.Mode
    /\ modified' = e.modified
    /\ Keymapping' = e.Keymapping
    /\ prompt' = e.prompt
    /\ crashed' = e.crashed
    /\ UNCHANGED <<syntax, build, disk, filename, statusmsg>>

\* editor.Render() of the loop
Render ==
    /\ pc = "render"
    /\ ~crashed
    /\ \E e \in {RenderEd(Ed)} : Commit(e)
    /\ pc' = "key"
    /\ UNCHANGED hist

\* editor.ProcessKey() of the loop, reading the key k
Press(k) ==
    /\ pc = "key"
    /\ ~crashed
    /\ \E e \in {Step(Ed, k)} :
          /\ Commit(e)
          /\ pc' = IF e.blocked THEN "blocked" ELSE IF e.quit THEN "quit" ELSE "render"
          /\ hist' = [key |-> KeyClass(k), calls |-> e.calls,
                      trace |-> NextTrace(hist.trace, k)]

PromptActive == prompt.kind # "none"

InChain(name) == \E i \in 1..Len(Keymapping) : Keymapping[i] = name

\* The document has room for one more rune in the cursor's row
RoomForRune ==
    \/ cy = Len(rows) /\ Len(rows) < MaxRows
    \/ 0 <= cy /\ cy < Len(rows) /\ Len(rows[cy + 1].chars) < MaxLen

RoomForRow == Len(rows) < MaxRows

\* A Backspace that joins two rows leaves a row no longer than MaxLen
RoomForJoin ==
    (cx = 0 /\ 0 < cy /\ cy < Len(rows))
        => Len(rows[cy].chars) + Len(rows[cy + 1].chars) <= MaxLen

InitEditor(b, syn, texts, x, y) ==
    /\ build = b
    /\ syntax = syn
    /\ disk = <<>>
    /\ filename = <<>>
    /\ statusmsg = <<>>
    /\ rows = OpenLoop(syn, <<>>, texts)
    /\ cx = x
    /\ cy = y
    /\ rowOffset = 0
    /\ colOffset = 0
    /\ Mode = CommandMode
    /\ modified = FALSE
    /\ Keymapping = <<BasicMapName, CommandModeName>>
    /\ prompt = NoPrompt
    /\ crashed = FALSE
    /\ pc = "render"
    /\ hist = [key |-> "none", calls |-> 0, trace |-> <<>>]


-----------------------------------------------------------------------------
(* Editing: a small file is opened and edited in the three linkings.         *)

EditBuilds == {"p0", "sdk", "p1"}

EditRunes == {"a", "/", "*"}

EditDocs ==
    { <<>>,
      << <<"a">> >>,
      << <<"a", "a">> >>,
      << <<"/", "*">>, <<"a">> >>,
      << <<"/", "*">>, <<"*", "/">> >>,
      << <<"a">>, <<"/", "*">> >> }

EditCommands == {"i", "o", "D", "C", "j", "k", "0", "$", "G"}

InitEdit ==
    \E b \in EditBuilds, d \in EditDocs : InitEditor(b, JsSyntax, d, 0, 0)

\* A rune typed in Insert mode
InsertRune ==
    \E r \in EditRunes :
        /\ ~PromptActive
        /\ InChain(InsertModeName)
        /\ RoomForRune
        /\ Press(r)

PressEnter ==
    /\ ~PromptActive
    /\ InChain(InsertModeName) => RoomForRow
    /\ Press("Enter")

PressBackspace ==
    /\ ~PromptActive
    /\ RoomForJoin
    /\ Press("Backspace")

\* A key of the Command mode table
CommandKey ==
    \E k \in EditCommands :
        /\ ~PromptActive
        /\ InChain(CommandModeName)
        /\ k = "o" => RoomForRow
        /\ Press(k)

PressCtrlC ==
    /\ ~PromptActive
    /\ Press("Ctrl-C")

MoveCursor ==
    \E k \in {"Up", "Down", "Left", "Right"} :
        /\ ~PromptActive
        /\ Press(k)

NextEdit ==
    \/ Render
    \/ InsertRune
    \/ PressEnter
    \/ PressBackspace
    \/ CommandKey
    \/ PressCtrlC
    \/ MoveCursor

SpecEdit == InitEdit /\ [][NextEdit]_vars


-----------------------------------------------------------------------------
(* Properties of SpecEdit *)

\* A key handler has returned and Render has not yet run
AfterKey == pc = "render" /\ hist.key # "none" /\ ~crashed

CursorInRange ==
    /\ 0 <= cy
    /\ cy <= Len(rows)
    /\ cy < Len(rows) => (0 <= cx /\ cx <= Len(rows[cy + 1].chars))

\* C1: after each key-driven operation the cursor satisfies
\* 0 <= cy <= len(rows) and, when cy < len(rows), 0 <= cx <= len(rows[cy].chars).
C1_CursorInRangeAfterEachOperation == AfterKey => CursorInRange


\* The step is a key handler running to its return
KeyStep == pc = "key" /\ pc' = "render" /\ ~crashed'

EditClasses == {"rune", "Enter", "Backspace", "o", "D", "C"}

\* The rows a fresh top-to-bottom pass gives the document: the file of the
\* same lines, opened
FreshRows(syn, rs) == OpenLoop(syn, <<>>, [i \in 1..Len(rs) |-> rs[i].chars])

Fresh(syn, rs) ==
    LET Same(f) == \A i \in 1..Len(rs) :
                      /\ rs[i].hl = f[i].hl
                      /\ rs[i].hasUnclosedComment = f[i].hasUnclosedComment
    IN Same(FreshRows(syn, rs))

\* C2: after any single edit of a consistently highlighted document, every
\* row's highlight array and unclosed-comment flag equal what a fresh
\* top-to-bottom pass over the whole document produces.
C2_EditLeavesHighlightFresh ==
    [][(KeyStep /\ Fresh(syntax, rows) /\ hist'.key \in EditClasses)
          => Fresh(syntax, rows')]_vars

\* The tab expansion of the runes of a row, as updateRow computes it
Expanded(chars) == renderLoop(chars, <<>>, 0)

\* C12: after every row-store operation, every row's render equals the tab
\* expansion of its chars: no row is left with a stale render.
C12_RenderIsExpansionOfChars ==
    AfterKey => \A i \in 1..Len(rows) : rows[i].render = Expanded(rows[i].chars)

\* C14: no sequence of keys, from an empty or a loaded document, leads to an
\* access out of range: no reachable state is the one after a panic.
C14_NoKeySequencePanics == ~crashed

\* C6: in Insert mode, Enter with the cursor at (x, y) on an existing row
\* leaves row y holding content[0..x), a new row y+1 holding content[x..),
\* one row more, every other row as it was, and the cursor at (0, y+1).
C6_EnterSplitsRow ==
    [][(/\ KeyStep
        /\ hist'.key = "Enter"
        /\ InChain(InsertModeName)
        /\ 0 <= cy /\ cy < Len(rows)
        /\ 0 <= cx /\ cx <= Len(rows[cy + 1].chars))
          => (/\ Len(rows') = Len(rows) + 1
              /\ rows'[cy + 1].chars = Head0(rows[cy + 1].chars, cx)
              /\ rows'[cy + 2].chars = Tail0(rows[cy + 1].chars, cx)
              /\ \A i \in 1..Len(rows) :
                    /\ i < cy + 1 => rows'[i].chars = rows[i].chars
                    /\ i > cy + 1 => rows'[i + 1].chars = rows[i].chars
              /\ cx' = 0
              /\ cy' = cy + 1)]_vars


Contains(chars, m) == \E i \in 0..Len(chars) : MatchesAt(chars, m, i)

\* The row holds neither marker of the multi-line comment
MarkerFree(syn, chars) == ~Contains(chars, syn.mcs) /\ ~Contains(chars, syn.mce)

AllMlComment(row) == \A j \in 1..Len(row.hl) : row.hl[j] = hlMlComment

NoMlComment(row) == \A j \in 1..Len(row.hl) : row.hl[j] # hlMlComment

\* Row y of rs holds only the start marker and row y + 1 no marker
OnlyMarkerAbove(syn, rs, y) ==
    /\ rs[y + 1].chars = syn.mcs
    /\ rs[y + 2].chars # <<>>
    /\ MarkerFree(syn, rs[y + 2].chars)

Joined(texts, y) ==
    [i \in 1..(Len(texts) - 1) |->
        IF i < y THEN texts[i]
        ELSE IF i = y THEN texts[y] \o texts[y + 1]
        ELSE texts[i + 1]]

\* C32: Backspace with the cursor at column 0 of row y > 0 merges row y into
\* row y-1: row y-1 becomes old(row y-1) followed by old(row y), the document
\* is one row shorter, the other rows keep their content and order, and the
\* cursor ends at row y-1, column len(old row y-1), also when y is the last
\* row.
C32_BackspaceAtColumnZeroJoinsRows ==
    [][(pc = "key" /\ ~PromptActive /\ hist'.key = "Backspace" /\ cx = 0
           /\ 0 < cy /\ cy < Len(rows))
          => (/\ ~crashed'
              /\ Chars(rows') = Joined(Chars(rows), cy)
              /\ cy' = cy - 1
              /\ cx' = Len(rows[cy].chars))]_vars

\* The rows alone, in the linking whose Backspace calls DeleteChar
C32_JoinedRowsOfDeleteChar ==
    [][(pc = "key" /\ ~PromptActive /\ hist'.key = "Backspace" /\ cx = 0
           /\ 0 < cy /\ cy < Len(rows) /\ build = "p0")
          => (/\ ~crashed'
              /\ Chars(rows') = Joined(Chars(rows), cy))]_vars

-----------------------------------------------------------------------------
(* Searching: a file is opened with the cursor somewhere in it, and the      *)
(* incremental search is started, fed and ended, in the four linkings.       *)

FindBuilds == {"a", "p0", "sdk", "p1"}

HelloWorld == <<"h", "e", "l", "l", "o", " ", "w", "o", "r", "l", "d">>

FooBar == <<"f", "o", "o", " ", "b", "a", "r">>

ScenarioDoc == <<HelloWorld, FooBar>>

ThreeRowDoc == << <<"a", "b">>, <<"b", "a">>, <<"r", "a", "b", "a", "r">> >>

QueryRunes == {"b", "a", "r"}

\* The scenario's file is opened with the cursor at (0,0), the other file
\* with the cursor at the start or in the middle of any of its rows.
InitFind ==
    \E b \in FindBuilds :
        \/ InitEditor(b, NoSyntax, ScenarioDoc, 0, 0)
        \/ \E y \in 0..2, x \in 0..1 : InitEditor(b, NoSyntax, ThreeRowDoc, x, y)

\* ctrl-f outside a prompt
StartSearch ==
    /\ ~PromptActive
    /\ Press("Ctrl-F")

\* A printable key while the search prompt is open
TypeQuery ==
    \E r \in QueryRunes :
        /\ PromptActive
        /\ Len(prompt.query) < MaxQuery
        /\ Press(r)

EraseQuery ==
    /\ PromptActive
    /\ Press("Backspace")

CancelSearch ==
    /\ PromptActive
    /\ Press("Esc")

AcceptSearch ==
    /\ PromptActive
    /\ Press("Enter")

NextFind ==
    \/ Render
    \/ StartSearch
    \/ TypeQuery
    \/ EraseQuery
    \/ CancelSearch
    \/ AcceptSearch

SpecFind == InitFind /\ [][NextFind]_vars

SearchKinds == {"Find_a", "Find_p0", "Find_sdk", "FindInteractive"}

\* C3: when a search was started with the cursor at (x0,y0) and the offsets
\* (rowOffset0, colOffset0), Escape, after any query, leaves cx = x0,
\* cy = y0, rowOffset = rowOffset0 and colOffset = colOffset0.
C3_EscapeRestoresCursorAndOffsets ==
    [][(KeyStep /\ prompt.kind \in SearchKinds /\ hist'.key = "Esc")
          => (/\ cx' = prompt.savedCx
              /\ cy' = prompt.savedCy
              /\ rowOffset' = prompt.savedRowOffset
              /\ colOffset' = prompt.savedColOffset)]_vars

\* C4: with the rows "hello world", "foo bar" and the cursor at (0,0),
\* ctrl-f and then b, a, r leave the cursor at row 1, column 4, and Escape
\* after them leaves it at (0,0).
C4_SearchBarThenEscape ==
    (Chars(rows) = ScenarioDoc /\ ~crashed)
        => /\ hist.trace = <<"Ctrl-F", "b", "a", "r">> => (cx = 4 /\ cy = 1)
           /\ hist.trace = <<"Ctrl-F", "b", "a", "r", "Esc">> => (cx = 0 /\ cy = 0)

\* The cells of row i (from 1) that carry the match category
MatchCells(i) == {j \in 1..Len(rows[i].hl) : rows[i].hl[j] = hlMatch}

\* C20: the match highlight is a temporary overlay.  While the search is
\* open, the only cells that carry the match category are those of the
\* current match, in the row of the cursor: the overlay of an earlier
\* keystroke has been taken back.  Once the search has ended, by Enter or by
\* Escape, no row carries the match category.
C20_MatchHighlightIsTemporary ==
    ~crashed =>
        IF PromptActive
        THEN \A i \in 1..Len(rows) :
                MatchCells(i) # {} =>
                    /\ i = cy + 1
                    /\ MatchCells(i) \subseteq (cx + 1)..(cx + Len(prompt.query))
        ELSE \A i \in 1..Len(rows) : MatchCells(i) = {}

-----------------------------------------------------------------------------
(* Word motion: a file of one or two rows is opened in the three linkings    *)
(* and the cursor is moved in Command mode.                                  *)

WordBuilds == {"p0", "sdk", "p1"}

TheQuickFox ==
    <<"t", "h", "e", " ", "q", "u", "i", "c", "k", " ", "f", "o", "x">>

TwoRowDoc == << <<"a", " ", " ", "b">>, <<" ", "a">> >>

\* The scenario's row is opened with the cursor at (0,0), the other file
\* with the cursor at the start of either row.
InitWord ==
    \E b \in WordBuilds :
        \/ InitEditor(b, NoSyntax, <<TheQuickFox>>, 0, 0)
        \/ \E y \in 0..1 : InitEditor(b, NoSyntax, TwoRowDoc, 0, y)

PressW ==
    /\ InChain(CommandModeName)
    /\ Press("w")

PressB ==
    /\ InChain(CommandModeName)
    /\ Press("b")

MoveInRows ==
    \E k \in {"h", "l", "j", "k", "0", "$"} :
        /\ InChain(CommandModeName)
        /\ Press(k)

NextWord ==
    \/ Render
    \/ PressW
    \/ PressB
    \/ MoveInRows

SpecWord == InitWord /\ [][NextWord]_vars

\* C5: in Command mode with the cursor at (0,0) on the row "the quick fox",
\* the first 'w' leaves the cursor at column 4, the second at column 10, the
\* start of "fox", and the third at column 13, the end of the row.
C5_TwoWordsReachFoxThirdTheEnd ==
    (Chars(rows) = <<TheQuickFox>> /\ ~crashed)
        => /\ hist.trace = <<"w">> => (cx = 4 /\ cy = 0)
           /\ hist.trace = <<"w", "w">> => (cx = 10 /\ cy = 0)
           /\ hist.trace = <<"w", "w", "w">> => (cx = 13 /\ cy = 0)

\* 'w' was pressed three times from (0,0) on "the quick fox"
C5_Witness ==
    /\ Chars(rows) = <<TheQuickFox>>
    /\ Mode = CommandMode
    /\ ~crashed
    /\ hist.trace = <<"w", "w", "w">>
    /\ cx = 13
    /\ cy = 0

\* C5 as it was stated: three presses of 'w' leave the cursor at column 10.
C5_ThreeWordsReachFox ==
    (Chars(rows) = <<TheQuickFox>> /\ ~crashed /\ hist.trace = <<"w", "w", "w">>)
        => (cx = 10 /\ cy = 0)


-----------------------------------------------------------------------------
(* Re-highlighting: updateHighlight(y) is called on a document whose rows    *)
(* hold any text over three runes and any unclosed-comment flags, as they    *)
(* do when the text of a row was just changed or a row above was deleted.    *)

HlRunes == {"/", "*", "a"}

HlTexts == UNION {[1..n -> HlRunes] : n \in 0..MaxLen}

HlDocs == UNION {[1..n -> HlTexts] : n \in 1..MaxHlRows}

\* The row of the text chars as updateRow rendered it, not yet highlighted
RenderedRow(chars, flag) ==
    [chars |-> chars, render |-> renderLoop(chars, <<>>, 0),
     hl |-> [j \in 1..Len(chars) |-> hlNormal], hasUnclosedComment |-> flag]

InitHL ==
    /\ \E d \in HlDocs : \E flags \in [1..Len(d) -> BOOLEAN] :
          rows = [i \in 1..Len(d) |-> RenderedRow(d[i], flags[i])]
    /\ build = "p0"
    /\ syntax = JsSyntax
    /\ cx = 0
    /\ cy = 0
    /\ rowOffset = 0
    /\ colOffset = 0
    /\ Mode = CommandMode
    /\ modified = FALSE
    /\ Keymapping = <<BasicMapName, CommandModeName>>
    /\ prompt = NoPrompt
    /\ crashed = FALSE
    /\ pc = "updateHighlight"
    /\ disk = <<>>
    /\ filename = <<>>
    /\ statusmsg = <<>>
    /\ hist = [key |-> "none", calls |-> 0, trace |-> OffTrack,
               y |-> 0, prevY |-> -1, prevCalls |-> 0]

\* e.updateHighlight(y); hist keeps y and the number of rows recomputed, of
\* this call and of the call before it
Rehighlight ==
    \E y \in 0..(Len(rows) - 1) :
        /\ pc = "updateHighlight"
        /\ \E e \in {updateHighlight(Ed, y)} :
              /\ Commit(e)
              /\ hist' = [key |-> "updateHighlight", calls |-> e.calls,
                          trace |-> OffTrack, y |-> y,
                          prevY |-> IF hist.key = "updateHighlight" THEN hist.y ELSE -1,
                          prevCalls |-> hist.calls]
        /\ UNCHANGED pc

NextHL == Rehighlight

SpecHL == InitHL /\ [][NextHL]_vars

\* C8: updateHighlight(y) returns after recomputing at least one and at most
\* len(rows) - y rows, for every document and every y.
C8_RehighlightStopsWithinTheRowsBelow ==
    hist.key = "updateHighlight"
        => (1 <= hist.calls /\ hist.calls <= Len(rows) - hist.y)

\* updateHighlight(0) on three rows recomputed all three
C8_Witness ==
    /\ hist.key = "updateHighlight"
    /\ hist.y = 0
    /\ Len(rows) = 3
    /\ hist.calls = 3

\* C9: a call of updateHighlight(y) that directly follows a call of
\* updateHighlight(y) leaves row y's highlight array and unclosed-comment
\* flag as they were, recomputes row y alone, and changes no other row.
C9_SecondCallChangesNothing ==
    [][(/\ hist.key = "updateHighlight"
        /\ hist'.key = "updateHighlight"
        /\ hist'.prevY = hist'.y)
          => (/\ rows'[hist'.y + 1].hl = rows[hist'.y + 1].hl
              /\ rows'[hist'.y + 1].hasUnclosedComment
                     = rows[hist'.y + 1].hasUnclosedComment
              /\ hist'.calls = 1
              /\ rows' = rows)]_vars

\* The second of two calls of updateHighlight(0), the first of which had
\* recomputed three rows
C9_Witness ==
    /\ hist.key = "updateHighlight"
    /\ hist.prevY = hist.y
    /\ hist.y = 0
    /\ hist.prevCalls = 3
    /\ hist.calls = 1


-----------------------------------------------------------------------------
(* Keywords: a file of one row over a few runes is opened, and the row is    *)
(* rendered and highlighted.                                                 *)

KwRunes == {"i", "n", "t", "f", " ", "\"", "1"}

KwTexts == UNION {[1..n -> KwRunes] : n \in 0..MaxKwLen}

InitKw ==
    /\ \E t \in KwTexts : rows = <<NewRow(t)>>
    /\ build = "p0"
    /\ syntax = JsSyntax
    /\ cx = 0
    /\ cy = 0
    /\ rowOffset = 0
    /\ colOffset = 0
    /\ Mode = CommandMode
    /\ modified = FALSE
    /\ Keymapping = <<BasicMapName, CommandModeName>>
    /\ prompt = NoPrompt
    /\ crashed = FALSE
    /\ pc = "open"
    /\ disk = <<>>
    /\ filename = <<>>
    /\ statusmsg = <<>>
    /\ hist = [key |-> "none", calls |-> 0, trace |-> OffTrack]

\* e.updateRow(0) of OpenFile
HighlightOpened ==
    /\ pc = "open"
    /\ \E e \in {updateRow(Ed, 0)} :
          /\ Commit(e)
          /\ hist' = [key |-> "updateRow", calls |-> e.calls, trace |-> OffTrack]
    /\ pc' = "render"

NextKw == HighlightOpened

SpecKw == InitKw /\ [][NextKw]_vars

KeywordHl == {hlKeyword1, hlKeyword2}

AllKeywords(syn) ==
    {syn.keywords[i] : i \in 1..Len(syn.keywords)}
        \cup {syn.keywords2[i] : i \in 1..Len(syn.keywords2)}

\* The keywords of the list whose category is c
KeywordsOf(syn, c) ==
    IF c = hlKeyword1 THEN {syn.keywords[i] : i \in 1..Len(syn.keywords)}
    ELSE {syn.keywords2[i] : i \in 1..Len(syn.keywords2)}

\* The cells p .. q-1 (from 0) of hl are a run of keyword cells that no
\* keyword cell touches
IsKeywordRun(hl, p, q) ==
    /\ p < q
    /\ \A j \in (p + 1)..q : hl[j] \in KeywordHl
    /\ p = 0 \/ hl[p] \notin KeywordHl
    /\ q = Len(hl) \/ hl[q + 1] \notin KeywordHl

Highlighted == pc = "render" /\ hist.key = "updateRow" /\ ~crashed

-----------------------------------------------------------------------------
(* Editing rows that hold tabs: render is longer than chars.                 *)

TabDocs ==
    { << <<"\t">> >>,
      << <<"/", "*">>, <<"\t">> >> }

InitTab ==
    \E b \in EditBuilds, d \in TabDocs : InitEditor(b, JsSyntax, d, 0, 0)

TabCommands == {"i", "D", "$"}

\* A key of the Command mode table, of those that lead to or make an edit
TabCommand ==
    \E k \in TabCommands :
        /\ ~PromptActive
        /\ InChain(CommandModeName)
        /\ Press(k)

NextTab ==
    \/ Render
    \/ InsertRune
    \/ PressEnter
    \/ PressBackspace
    \/ TabCommand
    \/ PressCtrlC

SpecTab == InitTab /\ [][NextTab]_vars

\* C13: in every reachable state, every row has exactly one highlight cell
\* per character of its render.
C13_OneHighlightCellPerRenderCharacter ==
    \A i \in 1..Len(rows) : Len(rows[i].hl) = Len(rows[i].render)

\* A rune was typed into a row with a tab inside a multi-line comment: the
\* row's render is longer than its chars and is highlighted as comment
C13_Witness ==
    /\ AfterKey
    /\ hist.key = "rune"
    /\ \E i \in 1..Len(rows) :
          /\ Contains(rows[i].chars, <<"\t">>)
          /\ Len(rows[i].chars) = 2
          /\ Len(rows[i].render) > Len(rows[i].chars)
          /\ Len(rows[i].hl) = Len(rows[i].render)
          /\ rows[i].hl[1] = hlMlComment


-----------------------------------------------------------------------------
(* Key dispatch: every kind of key is read in every mode, and the observer   *)
(* keeps the key that was read and the handlers ProcessKey called for it.    *)

KeyDocs ==
    { <<>>,
      << <<"a", "b">> >>,
      << <<"a">>, <<"b">> >> }

DispatchKeys ==
    {"a", "x", "i", "Enter", "Backspace", "Right", "Ctrl-C", "Ctrl-Q", "Esc"}

\* The keys of DispatchKeys no table of the Insert mode chain binds
UnboundInInsert == {"a", "x", "i", "Esc"}

\* The keys of DispatchKeys no table of the Command mode chain binds
UnboundInCommand == {"a", "x", "Enter", "Ctrl-C", "Esc"}

InitKeys ==
    \E b \in EditBuilds, d \in KeyDocs : InitEditor(b, NoSyntax, d, 0, 0)

\* The key keeps the rows and the query within the bounds
WithinBounds(k) ==
    IF PromptActive
    THEN k \in UnboundInInsert => Len(prompt.query) < MaxQuery
    ELSE /\ (InChain(InsertModeName) /\ k \in UnboundInInsert) => RoomForRune
         /\ (InChain(InsertModeName) /\ k = "Enter") => RoomForRow
         /\ k = "Backspace" => RoomForJoin

\* editor.ProcessKey() of the loop, reading the key k
Dispatch(k) ==
    /\ pc = "key"
    /\ ~crashed
    /\ \E e \in {Step(Ed, k)} :
          /\ Commit(e)
          /\ pc' = IF e.blocked THEN "blocked" ELSE IF e.quit THEN "quit" ELSE "render"
          /\ hist' = [key |-> KeyClass(k), calls |-> e.calls, trace |-> OffTrack,
                      read |-> k, ran |-> e.ran]

ReadKey == \E k \in DispatchKeys : WithinBounds(k) /\ Dispatch(k)

NextKeys ==
    \/ Render
    \/ ReadKey

SpecKeys == InitKeys /\ [][NextKeys]_vars

\* The handlers called for the last key
Ran == IF hist.key = "none" THEN <<>> ELSE hist.ran

\* C15: ProcessKey consults the key-maps of the chain in order and stops at
\* the first handler that reports handled: the handlers called for a key are
\* those of a prefix of the chain as it was, none but the last reported
\* handled, and none but the last changed the editor, so that the action of
\* at most one key-map ran.
C15_FirstHandledStopsTheChain ==
    [][(pc = "key" /\ pc' # "key" /\ build # "a")
          => /\ Len(hist'.ran) <= Len(Keymapping)
             /\ \A i \in 1..Len(hist'.ran) :
                   /\ hist'.ran[i].name = Keymapping[i]
                   /\ i < Len(hist'.ran) =>
                         (~hist'.ran[i].handled /\ ~hist'.ran[i].changed)
             /\ (prompt.kind \notin BlockingKinds /\ ~crashed'
                   /\ 0 < Len(hist'.ran) /\ Len(hist'.ran) < Len(Keymapping))
                   => hist'.ran[Len(hist'.ran)].handled]_vars

\* A key the first key-map did not handle was handled by the second
C15_Witness ==
    /\ AfterKey
    /\ Len(Ran) = 2
    /\ ~Ran[1].handled
    /\ Ran[2].handled
    /\ Ran[2].changed


\* C16: in Command mode a key that neither the basic table nor the command
\* table binds is dropped: the rows, the cursor, the offsets, the mode, the
\* chain and the modified flag are as they were.
C16_UnboundKeyInCommandModeIsDropped ==
    [][(pc = "key" /\ pc' # "key" /\ ~PromptActive
          /\ Keymapping = <<BasicMapName, CommandModeName>>
          /\ hist'.read \in UnboundInCommand)
          => /\ UNCHANGED <<rows, cx, cy, rowOffset, colOffset, Mode, Keymapping,
                            modified>>
             /\ ~crashed'
             /\ pc' = "render"]_vars

\* An unbound key was read in Command mode, on a document that had been
\* edited, and both handlers reported that they had not handled it
C16_Witness ==
    /\ AfterKey
    /\ hist.read = "x"
    /\ modified
    /\ Mode = CommandMode
    /\ Len(Ran) = 2
    /\ Ran[1].name = BasicMapName /\ ~Ran[1].handled
    /\ Ran[2].name = CommandModeName /\ ~Ran[2].handled


\* The printable keys of DispatchKeys no table of the Insert mode chain binds
PrintableUnbound == {k \in UnboundInInsert : isPrintable(k)}

\* C17: in Insert mode a printable key that neither the basic table nor the
\* insert table binds is inserted at the cursor: the row of the cursor grows
\* by that one character at index cx, the cursor advances to cx + 1, and no
\* other row changes.
C17_PrintableKeyIsInsertedAtCursor ==
    [][(pc = "key" /\ pc' # "key" /\ ~PromptActive
          /\ Keymapping = <<BasicMapName, InsertModeName>>
          /\ hist'.read \in PrintableUnbound
          /\ 0 <= cy /\ cy < Len(rows)
          /\ 0 <= cx /\ cx <= Len(rows[cy + 1].chars))
          => /\ ~crashed'
             /\ Len(rows') = Len(rows)
             /\ rows'[cy + 1].chars =
                    Head0(rows[cy + 1].chars, cx) \o <<hist'.read>>
                        \o Tail0(rows[cy + 1].chars, cx)
             /\ \A i \in 1..Len(rows) : i # cy + 1 => rows'[i] = rows[i]
             /\ cy' = cy
             /\ cx' = cx + 1]_vars


\* The positions at which two chains of the same length differ
Replaced(old, new) == {i \in 1..Len(old) : new[i] # old[i]}

\* C18: SetMode(InsertMode) and SetMode(CommandMode) replace exactly one
\* entry of the chain, the Command entry by the Insert entry or the reverse,
\* and leave the other entries, the length and the order as they were: the
\* basic key-map stays first.
C18_SetModeReplacesOneEntry ==
    [][(pc = "key" /\ pc' # "key" /\ ~PromptActive
          /\ \/ hist'.read = "i" /\ InChain(CommandModeName)
             \/ hist'.read = "Ctrl-C" /\ InChain(InsertModeName))
          => /\ Len(Keymapping') = Len(Keymapping)
             /\ Cardinality(Replaced(Keymapping, Keymapping')) = 1
             /\ \A i \in Replaced(Keymapping, Keymapping') :
                   IF hist'.read = "i"
                   THEN Keymapping[i] = CommandModeName
                        /\ Keymapping'[i] = InsertModeName
                   ELSE Keymapping[i] = InsertModeName
                        /\ Keymapping'[i] = CommandModeName
             /\ Keymapping'[1] = BasicMapName
             /\ Mode' = IF hist'.read = "i" THEN InsertMode ELSE CommandMode]_vars

\* ctrl-c was read in Insert mode after a rune had been typed, and the chain
\* is the basic key-map followed by the Command key-map again
C18_Witness ==
    /\ AfterKey
    /\ hist.read = "Ctrl-C"
    /\ modified
    /\ Len(Ran) = 2
    /\ Ran[2].name = InsertModeName
    /\ Keymapping = <<BasicMapName, CommandModeName>>


-----------------------------------------------------------------------------
(* Prompts: the search and the quit prompt are entered from both modes with  *)
(* the Prompt that installs a key-map and returns.                           *)

PromptBuilds == {"sdk", "p1"}

PromptDocs ==
    { << <<"a">> >>,
      << <<"b">>, <<"a">> >> }

PromptKeys ==
    {"a", "i", "Backspace", "Enter", "Esc", "Ctrl-C", "Ctrl-F", "Ctrl-Q"}

InitPrompt ==
    \E b \in PromptBuilds, d \in PromptDocs : InitEditor(b, NoSyntax, d, 0, 0)

ReadPromptKey == \E k \in PromptKeys : WithinBounds(k) /\ Dispatch(k)

NextPrompt ==
    \/ Render
    \/ ReadPromptKey

SpecPrompt == InitPrompt /\ [][NextPrompt]_vars

\* C19: entering a prompt keeps the chain in backup and installs the
\* prompt's handler alone; while the callback does not report finished the
\* backup and the installed handler stay; when it reports finished the chain
\* is the one that was active when the prompt was entered.
C19_PromptRestoresTheChainItReplaced ==
    [][/\ (~PromptActive /\ PromptActive')
            => (prompt'.backup = Keymapping /\ Keymapping' = <<PromptModeName>>)
       /\ (PromptActive /\ PromptActive')
            => (prompt'.backup = prompt.backup /\ Keymapping' = <<PromptModeName>>)
       /\ (PromptActive /\ ~PromptActive' /\ ~crashed')
            => Keymapping' = prompt.backup]_vars

\* A search entered from Insert mode has ended after keys were typed into
\* it, one of them erased, and the chain is that of Insert mode again
C19_Witness ==
    /\ AfterKey
    /\ ~PromptActive
    /\ hist.read \in {"Esc", "Enter"}
    /\ Len(Ran) = 1
    /\ Ran[1].name = PromptModeName
    /\ Ran[1].handled
    /\ Keymapping = <<BasicMapName, InsertModeName>>


-----------------------------------------------------------------------------
(* Substring search: findSubstring is called on every text and query over    *)
(* two runes, in both of its versions.                                       *)

SubstrRunes == {"a", "b"}

SubstrTexts == UNION {[1..n -> SubstrRunes] : n \in 0..MaxText}

\* The editor of a call that involves no document
IdleEditor(b) ==
    /\ build = b
    /\ syntax = NoSyntax
    /\ disk = <<>>
    /\ filename = <<>>
    /\ statusmsg = <<>>
    /\ rows = <<>>
    /\ cx = 0
    /\ cy = 0
    /\ rowOffset = 0
    /\ colOffset = 0
    /\ Mode = CommandMode
    /\ modified = FALSE
    /\ Keymapping = <<BasicMapName, CommandModeName>>
    /\ prompt = NoPrompt
    /\ crashed = FALSE

\* spare is cap(text) - len(text) of the slice that is passed
InitSubstr ==
    /\ \E b \in {"sdk", "p1"} : IdleEditor(b)
    /\ pc = "call"
    /\ \E t \in SubstrTexts, q \in SubstrTexts, spare \in {0, 1} :
          hist = [key |-> "none", calls |-> 0, trace |-> OffTrack,
                  text |-> t, query |-> q, spare |-> spare,
                  idx |-> -1, panic |-> FALSE]

CallFindSubstring ==
    /\ pc = "call"
    /\ \E r \in {IF build = "sdk" THEN findSubstring_sdk(hist.text, hist.query)
                 ELSE findSubstring_p1cap(hist.text, hist.query, hist.spare)} :
          /\ hist' = [hist EXCEPT !.key = "findSubstring", !.idx = r.idx,
                                  !.panic = r.panic]
          /\ crashed' = r.panic
    /\ pc' = "returned"
    /\ UNCHANGED <<rows, cx, cy, rowOffset, colOffset, Mode, modified, syntax,
                   Keymapping, prompt, build, disk, filename, statusmsg>>

NextSubstr == CallFindSubstring

SpecSubstr == InitSubstr /\ [][NextSubstr]_vars

\* The indices (from 0) at which the whole query occurs in the text
Occurrences(text, query) == {i \in 0..Len(text) : MatchesAt(text, query, i)}

\* C21: for every text and every query findSubstring returns the smallest
\* index at which the query occurs in the text, and -1 when it occurs
\* nowhere, and reads no position outside the text.
C21_FindSubstringReturnsLeftmostMatch ==
    pc = "returned" =>
        /\ ~hist.panic
        /\ hist.idx = IF Occurrences(hist.text, hist.query) = {} THEN -1
                      ELSE Least(Occurrences(hist.text, hist.query))


-----------------------------------------------------------------------------
(* Static search: Find(x, y, query) of part_001 is called at every position  *)
(* of a small file, with every query over two runes.                         *)

StaticTexts == UNION {[1..n -> SubstrRunes] : n \in 0..MaxLen}

StaticDocs == UNION {[1..n -> StaticTexts] : n \in 1..MaxRows}

InitStatic ==
    /\ build = "p1"
    /\ syntax = NoSyntax
    /\ disk = <<>>
    /\ filename = <<>>
    /\ statusmsg = <<>>
    /\ \E d \in StaticDocs : rows = OpenLoop(NoSyntax, <<>>, d)
    /\ cy \in 0..(Len(rows) - 1)
    /\ cx \in 0..Len(rows[cy + 1].chars)
    /\ rowOffset = 0
    /\ colOffset = 0
    /\ Mode = CommandMode
    /\ modified = FALSE
    /\ Keymapping = <<BasicMapName, CommandModeName>>
    /\ prompt = NoPrompt
    /\ crashed = FALSE
    /\ pc = "call"
    /\ \E q \in SubstrTexts :
          hist = [key |-> "none", calls |-> 0, trace |-> OffTrack,
                  query |-> q, x |-> -1, y |-> -1, panic |-> FALSE]

\* e.Find(e.cx, e.cy, query)
CallFind ==
    /\ pc = "call"
    /\ \E r \in {Find_p1cap(Ed, cx, cy, hist.query)} :
          /\ hist' = [hist EXCEPT !.key = "Find", !.x = r.x, !.y = r.y,
                                  !.panic = r.panic]
          /\ crashed' = r.panic
    /\ pc' = "returned"
    /\ UNCHANGED <<rows, cx, cy, rowOffset, colOffset, Mode, modified, syntax,
                   Keymapping, prompt, build, disk, filename, statusmsg>>

NextStatic == CallFind

SpecStatic == InitStatic /\ [][NextStatic]_vars

\* The positions <<y, x>> at or after the cursor at which the query occurs
MatchesFrom(q) ==
    {p \in (cy..(Len(rows) - 1)) \X (0..MaxLen) :
        /\ MatchesAt(rows[p[1] + 1].chars, q, p[2])
        /\ p[1] = cy => p[2] >= cx}

\* The position of a set that comes first in document order
FirstInOrder(ps) ==
    CHOOSE p \in ps : \A o \in ps : p[1] < o[1] \/ (p[1] = o[1] /\ p[2] <= o[2])

\* C22: Find(x, y, query) returns the first match in document order at or
\* after column x of row y, the rest of row y first and then the rows below
\* it, and (-1, -1) when there is none: it returns no position before (x, y).
C22_FindReturnsFirstMatchFromCursor ==
    pc = "returned" =>
        /\ ~hist.panic
        /\ IF MatchesFrom(hist.query) = {} THEN hist.x = -1 /\ hist.y = -1
           ELSE <<hist.y, hist.x>> = FirstInOrder(MatchesFrom(hist.query))

\* The same for the queries of one rune or more
C22_NonEmptyQuery ==
    (pc = "returned" /\ hist.query # <<>>) =>
        /\ ~hist.panic
        /\ IF MatchesFrom(hist.query) = {} THEN hist.x = -1 /\ hist.y = -1
           ELSE <<hist.y, hist.x>> = FirstInOrder(MatchesFrom(hist.query))


-----------------------------------------------------------------------------
(* Cursor setters: each setter of sdk.go and of part_001 is called with      *)
(* every small argument, on every small document, the cursor inside it.      *)

CursorTexts == UNION {[1..n -> {"a"}] : n \in 0..MaxLen}

CursorDocs == UNION {[1..n -> CursorTexts] : n \in 0..MaxRows}

SettersOfY == {"SetPosY", "SetPosMaxY", "SetRelativePosY", "SetY"}

SettersOfX == {"SetPosX", "SetPosMaxX", "SetRelativePosX", "SetX"}

\* The setters part_001 defines, and those of sdk.go
SettersOf(b) ==
    IF b = "p1" THEN {"SetY", "SetX"} ELSE (SettersOfY \cup SettersOfX) \ {"SetY", "SetX"}

Arguments == (0 - MaxLen - 1)..(MaxLen + 1)

InitCursor ==
    /\ build \in {"sdk", "p1"}
    /\ syntax = NoSyntax
    /\ disk = <<>>
    /\ filename = <<>>
    /\ statusmsg = <<>>
    /\ \E d \in CursorDocs : rows = OpenLoop(NoSyntax, <<>>, d)
    /\ cy \in 0..Max(Len(rows) - 1, 0)
    /\ cx \in 0..(IF rows = <<>> THEN 0 ELSE Len(rows[cy + 1].chars))
    /\ rowOffset = 0
    /\ colOffset = 0
    /\ Mode = CommandMode
    /\ modified = FALSE
    /\ Keymapping = <<BasicMapName, CommandModeName>>
    /\ prompt = NoPrompt
    /\ crashed = FALSE
    /\ pc = "call"
    /\ hist = [key |-> "none", calls |-> 0, trace |-> OffTrack, arg |-> 0]

SetterOf(e, name, n) ==
    CASE name = "SetPosY" -> SetPosY(e, n)
      [] name = "SetPosMaxY" -> SetPosMaxY(e)
      [] name = "SetRelativePosY" -> SetRelativePosY(e, n)
      [] name = "SetY" -> SetY(e, n)
      [] name = "SetPosX" -> SetPosX(e, n)
      [] name = "SetPosMaxX" -> SetPosMaxX(e)
      [] name = "SetRelativePosX" -> SetRelativePosX(e, n)
      [] OTHER -> SetX(e, n)

\* One call of a setter
CallSetter ==
    /\ pc = "call"
    /\ \E name \in SettersOf(build), n \in Arguments :
          /\ name \in {"SetPosMaxY", "SetPosMaxX"} => n = 0
          /\ \E e \in {SetterOf(Ed, name, n)} : Commit(e)
          /\ hist' = [hist EXCEPT !.key = name, !.arg = n]
    /\ pc' = "returned"

NextCursor == CallSetter

SpecCursor == InitCursor /\ [][NextCursor]_vars

\* The cursor's row is in the document, or is row 0 of the empty document
RowClamped == 0 <= cy /\ cy <= Max(Len(rows) - 1, 0)

\* The cursor's column is in its row, 0 for an empty row
ColumnClamped ==
    IF rows = <<>> THEN cx = 0
    ELSE IF ~(0 <= cy /\ cy < Len(rows)) THEN FALSE
    ELSE 0 <= cx /\ cx <= Len(rows[cy + 1].chars)

\* C28: every absolute and relative cursor setter clamps afterwards: after a
\* setter of y, 0 <= cy <= max(len(rows) - 1, 0); after a setter of x, cx = 0
\* if the current row is empty and 0 <= cx <= len(rows[cy].chars) otherwise,
\* for every integer argument, negative and oversized ones included.
C28_SettersClampTheCursor ==
    pc = "returned" =>
        /\ ~crashed
        /\ hist.key \in SettersOfY => RowClamped
        /\ hist.key \in SettersOfX => ColumnClamped

\* The same for the setters of sdk.go on a document of one row or more
C28_SdkSettersOnRows ==
    (pc = "returned" /\ build = "sdk" /\ rows # <<>>) =>
        /\ ~crashed
        /\ hist.key \in SettersOfY => RowClamped
        /\ hist.key \in SettersOfX => ColumnClamped


-----------------------------------------------------------------------------
(* Scrolling: Render is called with the cursor anywhere in a document that   *)
(* is taller and wider than the screen, the window anywhere over it.         *)

ScrollTexts ==
    { <<>>, <<"a", "a", "a", "a">>, <<"\t", "a">>, <<"a", "\t">> }

ScrollDocs ==
    {[i \in 1..n |-> t] : n \in 0..(ScreenRows + 2), t \in ScrollTexts}

InitScroll ==
    /\ build \in {"p0", "sdk"}
    /\ syntax = NoSyntax
    /\ disk = <<>>
    /\ filename = <<>>
    /\ statusmsg = <<>>
    /\ \E d \in ScrollDocs : rows = OpenLoop(NoSyntax, <<>>, d)
    /\ cy \in 0..Max(Len(rows) - 1, 0)
    /\ cx \in 0..(IF rows = <<>> THEN 0 ELSE Len(rows[cy + 1].chars))
    /\ rowOffset \in 0..(ScreenRows + 1)
    /\ colOffset \in 0..(Tabstop + 2)
    /\ Mode = CommandMode
    /\ modified = FALSE
    /\ Keymapping = <<BasicMapName, CommandModeName>>
    /\ prompt = NoPrompt
    /\ crashed = FALSE
    /\ pc = "render"
    /\ hist = [key |-> "none", calls |-> 0, trace |-> OffTrack,
               rowOffset |-> 0, colOffset |-> 0]

\* editor.Render() of the loop; hist keeps the offsets it found
RenderScroll ==
    /\ pc = "render"
    /\ ~crashed
    /\ \E e \in {RenderEd(Ed)} : Commit(e)
    /\ pc' = "key"
    /\ hist' = [hist EXCEPT !.key = "Render", !.rowOffset = rowOffset,
                            !.colOffset = colOffset]

NextScroll == RenderScroll

SpecScroll == InitScroll /\ [][NextScroll]_vars

\* c is in the window of the given size that starts at offset
InWindow(offset, c, size) == offset <= c /\ c < offset + size

\* C29: with screenRows >= 1 and screenCols >= 1, after scroll() the cursor
\* lies in the visible window: rowOffset <= cy < rowOffset + screenRows and
\* colOffset <= rx < colOffset + screenCols, rx the tab-expanded column of cx.
C29_CursorIsInTheWindowAfterScroll ==
    pc = "key" =>
        /\ ~crashed
        /\ InWindow(rowOffset, cy, ScreenRows)
        /\ InWindow(colOffset, Rx(Ed), ScreenCols)

\* Render found the cursor below and to the right of the window
C29_Witness ==
    /\ pc = "key"
    /\ cy >= hist.rowOffset + ScreenRows
    /\ Rx(Ed) >= hist.colOffset + ScreenCols
    /\ Contains(rows[cy + 1].chars, <<"\t">>)

\* The offset nearest to old of a window of the given size that holds c
Nearest(old, c, size) ==
    LET Holding == {o \in (c - size + 1)..c : InWindow(o, c, size)}
        Dist(o) == IF o >= old THEN o - old ELSE old - o
    IN CHOOSE o \in Holding : \A p \in Holding : Dist(o) <= Dist(p)

\* C30: scroll() never over-scrolls: when the cursor is already inside the
\* window the offsets are unchanged; otherwise each offset moves by the
\* smallest amount that brings the cursor onto the nearest edge.
C30_ScrollMovesTheWindowTheLeastItCan ==
    pc = "key" =>
        /\ rowOffset = Nearest(hist.rowOffset, cy, ScreenRows)
        /\ colOffset = Nearest(hist.colOffset, Rx(Ed), ScreenCols)
        /\ InWindow(hist.rowOffset, cy, ScreenRows) => rowOffset = hist.rowOffset
        /\ InWindow(hist.colOffset, Rx(Ed), ScreenCols) => colOffset = hist.colOffset

\* Render found the cursor above the window, which it moved up, and inside
\* it from left to right, the window away from the left margin
C30_Witness ==
    /\ pc = "key"
    /\ cy < hist.rowOffset
    /\ rowOffset = cy
    /\ cy > 0
    /\ hist.colOffset > 0
    /\ InWindow(hist.colOffset, Rx(Ed), ScreenCols)
    /\ colOffset = hist.colOffset


-----------------------------------------------------------------------------
(* Row indexes: in the oldest sdk.go each row stores its index.  Rows are    *)
(* inserted, deleted and joined from the empty document on.                  *)

\* The rows from position from (from 0) on, their idx changed by d
Reindexed(rs, from, d) ==
    [i \in 1..Len(rs) |-> IF i > from THEN [rs[i] EXCEPT !.idx = @ + d] ELSE rs[i]]

\* An InsertRow that leaves the idx of the rows it moves
InsertRow_a_noshift(e, at, chars) ==
    IF at < 0 \/ at > Len(e.rows) THEN e
    ELSE updateRow(
             [e EXCEPT !.rows = InsertAt(e.rows, at,
                 [chars |-> chars, render |-> <<>>, hl |-> <<>>, idx |-> at,
                  hasUnclosedComment |->
                      at > 0 /\ e.rows[at].hasUnclosedComment])], at)

\* InsertRow of src/sdk.go:279-297
InsertRow_a(e, at, chars) ==
    IF at < 0 \/ at > Len(e.rows) THEN e
    ELSE updateRow(
             [e EXCEPT !.rows = Reindexed(InsertAt(e.rows, at,
                 [chars |-> chars, render |-> <<>>, hl |-> <<>>, idx |-> at,
                  hasUnclosedComment |->
                      at > 0 /\ e.rows[at].hasUnclosedComment]), at + 1, 1)], at)

\* DeleteRow of src/sdk.go:130-143
DeleteRow_a(e, at) ==
    IF at < 0 \/ at >= Len(e.rows) THEN e
    ELSE WrapCursorX(WrapCursorY(
             [e EXCEPT !.rows = Reindexed(RemoveAt(e.rows, at), at, -1),
                       !.modified = TRUE]))

\* DeleteChar of src/sdk.go:107-128
DeleteChar_a(e) ==
    IF e.cy = Len(e.rows) THEN e
    ELSE IF e.cx = 0 /\ e.cy = 0 THEN e
    ELSE IF ~InRows(e, e.cy) THEN Crash(e)
    ELSE IF e.cx > 0
    THEN LET Retreat(e1) == [e1 EXCEPT !.cx = e1.cx - 1, !.modified = TRUE]
         IN Retreat(updateRow(
                [e EXCEPT !.rows[e.cy + 1].chars =
                    deleteChar(e.rows[e.cy + 1].chars, e.cx - 1)], e.cy))
    ELSE LET Up(e3) == IF e3.crashed THEN e3 ELSE [e3 EXCEPT !.cy = e3.cy - 1]
             Drop(e2) == Up(DeleteRow_a(e2, e.cy))
         IN Drop(updateRow(
                [e EXCEPT !.cx = Len(e.rows[e.cy].chars),
                          !.rows[e.cy].chars = @ \o e.rows[e.cy + 1].chars],
                e.cy - 1))

InitIdx ==
    /\ build = "a"
    /\ syntax = NoSyntax
    /\ disk = <<>>
    /\ filename = <<>>
    /\ statusmsg = <<>>
    /\ rows = <<>>
    /\ cx = 0
    /\ cy = 0
    /\ rowOffset = 0
    /\ colOffset = 0
    /\ Mode = CommandMode
    /\ modified = FALSE
    /\ Keymapping = <<BasicMapName, CommandModeName>>
    /\ prompt = NoPrompt
    /\ crashed = FALSE
    /\ pc = "call"
    /\ hist = [key |-> "none", calls |-> 0, trace |-> OffTrack]

Called(e, name) ==
    /\ Commit(e)
    /\ hist' = [hist EXCEPT !.key = name]
    /\ UNCHANGED pc

CallInsertRow ==
    /\ ~crashed
    /\ Len(rows) < MaxIdxRows
    /\ \E at \in (0 - 1)..(Len(rows) + 1), chars \in {<<>>, <<"a">>} :
          \E e \in {InsertRow_a(Ed, at, chars)} : Called(e, "InsertRow")

CallDeleteRow ==
    /\ ~crashed
    /\ \E at \in (0 - 1)..Len(rows) :
          \E e \in {DeleteRow_a(Ed, at)} : Called(e, "DeleteRow")

\* The cursor is put somewhere in the document
MoveTo ==
    /\ ~crashed
    /\ \E y \in 0..MaxIdxRows, x \in 0..1 :
          \E e \in {SetPosX(SetPosY(Ed, y), x)} : Called(e, "move")

\* Backspace: DeleteChar, which joins two rows when the cursor is at column 0
CallDeleteChar ==
    /\ ~crashed
    /\ (cx = 0 /\ 0 < cy /\ cy < Len(rows))
          => Len(rows[cy].chars) + Len(rows[cy + 1].chars) <= MaxLen
    /\ \E e \in {DeleteChar_a(Ed)} : Called(e, "DeleteChar")

NextIdx ==
    \/ CallInsertRow
    \/ CallDeleteRow
    \/ MoveTo
    \/ CallDeleteChar

SpecIdx == InitIdx /\ [][NextIdx]_vars

\* C33: in the variant that stores an index in each row, after any sequence
\* of InsertRow, DeleteRow and backspace-merge operations every row's idx
\* equals its position in the rows array.
C33_RowIdxIsItsPosition ==
    ~crashed => \A i \in 1..Len(rows) : rows[i].idx = i - 1

\* Two rows have been joined above a third
C33_Witness ==
    /\ hist.key = "DeleteChar"
    /\ Len(rows) = 2
    /\ rows[1].chars = <<"a", "a">>
    /\ rows[2].idx = 1

-----------------------------------------------------------------------------
(* Saving: a file is opened, saved and opened again.                         *)

FileBytes == {"a", "\r", "\n"}

Files == UNION {[1..n -> FileBytes] : n \in 0..MaxFile}

InitSave ==
    /\ disk \in Files
    /\ filename = <<"f">>
    /\ statusmsg = <<>>
    /\ rows = OpenFile(NoSyntax, disk)
    /\ build \in EditBuilds
    /\ syntax = NoSyntax
    /\ cx = 0
    /\ cy = 0
    /\ rowOffset = 0
    /\ colOffset = 0
    /\ Mode = CommandMode
    /\ modified = FALSE
    /\ Keymapping = <<BasicMapName, CommandModeName>>
    /\ prompt = NoPrompt
    /\ crashed = FALSE
    /\ pc = "opened"
    /\ hist = [key |-> "OpenFile", calls |-> 0, trace |-> OffTrack, saved |-> <<>>]

\* e.Save(): hist keeps the texts of the rows that were saved
SaveFile ==
    /\ pc = "opened"
    /\ disk' = WriteLoop(Chars(rows))
    /\ modified' = FALSE
    /\ pc' = "saved"
    /\ hist' = [hist EXCEPT !.key = "Save", !.saved = Chars(rows)]
    /\ UNCHANGED <<rows, cx, cy, rowOffset, colOffset, Mode, syntax, Keymapping,
                   prompt, crashed, build, filename, statusmsg>>

\* e.OpenFile(e.filename) after Save
OpenSaved ==
    /\ pc = "saved"
    /\ rows' = OpenFile(syntax, disk)
    /\ modified' = FALSE
    /\ pc' = "reopened"
    /\ hist' = [hist EXCEPT !.key = "OpenFile"]
    /\ UNCHANGED <<cx, cy, rowOffset, colOffset, Mode, syntax, Keymapping,
                   prompt, crashed, build, disk, filename, statusmsg>>

NextSave ==
    \/ SaveFile
    \/ OpenSaved

SpecSave == InitSave /\ [][NextSave]_vars

\* C11: Save followed by OpenFile of the same file yields a document with the
\* same number of rows and the same characters in each row, in the same
\* order, as the document that was saved.
C11_SaveThenOpenYieldsTheSameRows ==
    pc = "reopened" => Chars(rows) = hist.saved


-----------------------------------------------------------------------------
(* Files: the editor is started with or without a file, text is typed, the   *)
(* document is saved with ctrl-s and another file is opened with ctrl-e.     *)
(* The file system answers each call as it may: the file exists or not, the  *)
(* call succeeds or fails.                                                   *)

\* disk when no file has the name
NoFile == <<"ENOENT">>

NameRunes == {"f"}

Contents == { <<>>, <<"a", "\n">>, <<"a", "\n", "b", "\n">> }

IoOutcomes == {"ok", "open fails", "write fails"}

SaveAsText == "Save as: %s (ESC to cancel)"

FileNameText == "File name: "

SavedText == "saved file: %s"

ErrNoFileName == "No file name"

ErrPromptCanceled == "user canceled the input prompt"

ErrIO == "I/O error"

NoError == "nil"

\* An OpenFile that returns os.ErrNotExist for a name no file has
OpenFileNamed_enoent(name, content, io, old) ==
    IF content = NoFile
    THEN [filename |-> name, modified |-> old.modified, rows |-> old.rows,
          disk |-> NoFile, err |-> ErrIO]
    ELSE [filename |-> name, modified |-> FALSE,
          rows |-> OpenFile(NoSyntax, content), disk |-> content, err |-> NoError]

\* OpenFile(filename): content is what the file system holds under the name,
\* io whether os.Open, or os.Create for a name no file has, succeeds.
OpenFileNamed(name, content, io, old) ==
    IF io # "ok"
    THEN [filename |-> name, modified |-> content = NoFile, rows |-> old.rows,
          disk |-> content, err |-> ErrIO]
    ELSE IF content = NoFile
    THEN [filename |-> name, modified |-> TRUE, rows |-> <<>>,
          disk |-> <<>>, err |-> NoError]
    ELSE [filename |-> name, modified |-> FALSE,
          rows |-> OpenFile(NoSyntax, content), disk |-> content, err |-> NoError]

\* Save() from os.OpenFile on: the file is truncated when it is opened, and
\* a failing Write leaves the n bytes written before it; no Write is called
\* for a document of no rows.
SaveTo(name, texts, io, n, old) ==
    IF name = <<>> \/ io = "open fails"
    THEN [disk |-> old, err |-> ErrIO]
    ELSE IF io = "write fails" /\ texts # <<>>
    THEN [disk |-> Head0(WriteLoop(texts), n), err |-> ErrIO]
    ELSE [disk |-> WriteLoop(texts), err |-> NoError]

\* Run without an argument, or with the name of a file that is read
InitFile ==
    /\ build \in EditBuilds
    /\ syntax = NoSyntax
    /\ \/ filename = <<>> /\ disk = NoFile /\ rows = <<>>
       \/ /\ filename = <<"f">>
          /\ disk \in Contents
          /\ rows = OpenFile(NoSyntax, disk)
    /\ statusmsg = <<>>
    /\ cx = 0
    /\ cy = 0
    /\ rowOffset = 0
    /\ colOffset = 0
    /\ Mode = CommandMode
    /\ modified = FALSE
    /\ Keymapping = <<BasicMapName, CommandModeName>>
    /\ prompt = NoPrompt
    /\ crashed = FALSE
    /\ pc = "render"
    /\ hist = [key |-> "none", calls |-> 0, trace |-> OffTrack]

\* What hist keeps of a step on files: the key, the answer of the file
\* system, whether the name existed, and the error the call returned
FileStep(k, io, found, err) ==
    [key |-> k, calls |-> 0, trace |-> OffTrack, io |-> io, found |-> found,
     err |-> err]

\* The end of Save and of the ctrl-s handler, and what Run does with the
\* error ProcessKey returns: panic(err).
Saved(k, name, io, n) ==
    \E r \in {SaveTo(name, Chars(rows), io, n, disk)} :
        /\ filename' = name
        /\ disk' = r.disk
        /\ modified' = IF r.err = NoError THEN FALSE ELSE modified
        /\ statusmsg' = IF r.err = NoError THEN <<SavedText>> \o name
                        ELSE IF k = "Ctrl-S" THEN statusmsg ELSE <<>>
        /\ crashed' = (r.err # NoError)
        /\ prompt' = NoPrompt
        /\ pc' = "render"
        /\ hist' = FileStep(k, io, TRUE, r.err)
        /\ UNCHANGED <<rows, cx, cy, rowOffset, colOffset, Mode, syntax,
                       Keymapping, build>>

\* ctrl-s: Save asks for a name when there is none (part_000's StaticPrompt)
PressCtrlS ==
    /\ pc = "key"
    /\ ~crashed
    /\ ~PromptActive
    /\ filename # <<>> \/ build = "p0"
    /\ IF filename = <<>>
       THEN /\ prompt' = [kind |-> "SaveAs", input |-> <<>>]
            /\ statusmsg' = <<SaveAsText>>
            /\ pc' = "render"
            /\ hist' = FileStep("Ctrl-S", "none", FALSE, NoError)
            /\ UNCHANGED <<rows, cx, cy, rowOffset, colOffset, Mode, modified,
                           syntax, Keymapping, crashed, build, disk, filename>>
       ELSE \E io \in IoOutcomes, n \in 0..1 : Saved("Ctrl-S", filename, io, n)

\* A key read by the Prompt loop of part_000 under the callback of
\* StaticPrompt, and the rest of Save when the prompt has finished
SaveAsKey ==
    \E k \in NameRunes \cup {"Backspace", "Enter", "Esc"} :
        /\ pc = "key"
        /\ ~crashed
        /\ prompt.kind = "SaveAs"
        /\ k \in NameRunes => Len(prompt.input) < MaxName
        /\ IF k = "Esc"
           THEN /\ statusmsg' = <<>>
                /\ crashed' = TRUE
                /\ prompt' = NoPrompt
                /\ pc' = "render"
                /\ hist' = FileStep(k, "none", FALSE, ErrPromptCanceled)
                /\ UNCHANGED <<rows, cx, cy, rowOffset, colOffset, Mode, modified,
                               syntax, Keymapping, build, disk, filename>>
           ELSE IF k = "Enter"
           THEN \E io \in IoOutcomes, n \in 0..1 : Saved(k, prompt.input, io, n)
           ELSE \E input \in {IF k = "Backspace"
                              THEN Head0(prompt.input, Max(Len(prompt.input) - 1, 0))
                              ELSE Append(prompt.input, k)} :
                   /\ prompt' = [prompt EXCEPT !.input = input]
                   /\ statusmsg' = <<SaveAsText>> \o input
                   /\ pc' = "render"
                   /\ hist' = FileStep(k, "none", FALSE, NoError)
                   /\ UNCHANGED <<rows, cx, cy, rowOffset, colOffset, Mode,
                                  modified, syntax, Keymapping, crashed, build,
                                  disk, filename>>

\* ctrl-e of config.go: StaticPrompt of sdk.go and part_001 installs the
\* prompt and returns
PressCtrlE ==
    /\ pc = "key"
    /\ ~crashed
    /\ ~PromptActive
    /\ build \in {"sdk", "p1"}
    /\ \E e \in {Prompt_install(Ed, [kind |-> "StaticPrompt", input |-> <<>>,
                                     backup |-> Keymapping])} :
          /\ Keymapping' = e.Keymapping
          /\ Mode' = e.Mode
          /\ prompt' = e.prompt
    /\ statusmsg' = <<FileNameText>>
    /\ pc' = "render"
    /\ hist' = FileStep("Ctrl-E", "none", FALSE, NoError)
    /\ UNCHANGED <<rows, cx, cy, rowOffset, colOffset, modified, syntax, crashed,
                   build, disk, filename>>

\* The prompt's handler has finished: the message and the chain
Finished(k, input) ==
    /\ statusmsg' = <<FileNameText>> \o input
    /\ Keymapping' = prompt.backup
    /\ prompt' = NoPrompt
    /\ pc' = "render"

\* e.ErrChan() <- err: no statement of the sources makes the channel, and a
\* send on a nil channel never returns.  The run-time ends the program when
\* it finds every goroutine asleep, and leaves it blocked when it does not.
SendOnErrChan(k, io, found, err) ==
    /\ pc' = "blocked"
    /\ crashed' \in BOOLEAN
    /\ hist' = FileStep(k, io, found, err)
    /\ UNCHANGED <<Keymapping, prompt, statusmsg>>

\* A key dispatched to the handler Prompt installed, under the callback of
\* StaticPrompt with the end function of ctrl-e
FileNameKey ==
    \E k \in NameRunes \cup {"Backspace", "Enter", "Esc"} :
        /\ pc = "key"
        /\ ~crashed
        /\ prompt.kind = "StaticPrompt"
        /\ k \in NameRunes => Len(prompt.input) < MaxName
        /\ UNCHANGED <<cx, cy, rowOffset, colOffset, Mode, syntax, build>>
        /\ IF k = "Enter" /\ prompt.input = <<>>
           THEN /\ SendOnErrChan(k, "none", FALSE, ErrNoFileName)
                /\ UNCHANGED <<rows, modified, disk, filename>>
           ELSE IF k = "Enter"
           THEN \E content \in Contents \cup {NoFile}, io \in {"ok", "open fails"} :
                   \E r \in {OpenFileNamed(prompt.input, content, io,
                                           [rows |-> rows, modified |-> modified])} :
                      /\ filename' = r.filename
                      /\ modified' = r.modified
                      /\ rows' = r.rows
                      /\ disk' = r.disk
                      /\ IF r.err # NoError
                         THEN SendOnErrChan(k, io, content # NoFile, r.err)
                         ELSE /\ Finished(k, prompt.input)
                              /\ hist' = FileStep(k, io, content # NoFile, r.err)
                              /\ UNCHANGED crashed
           ELSE /\ UNCHANGED <<rows, modified, disk, filename, crashed>>
                /\ hist' = FileStep(k, "none", FALSE, NoError)
                /\ IF k = "Esc" THEN Finished(k, <<>>)
                   ELSE \E input \in {IF k = "Backspace"
                                      THEN Head0(prompt.input,
                                                 Max(Len(prompt.input) - 1, 0))
                                      ELSE Append(prompt.input, k)} :
                           /\ prompt' = [prompt EXCEPT !.input = input]
                           /\ statusmsg' = <<FileNameText>> \o input
                           /\ pc' = "render"
                           /\ UNCHANGED Keymapping

\* i, a rune and ctrl-c outside the prompts
TypeText ==
    \E k \in {"i", "a", "Ctrl-C"} :
        /\ ~PromptActive
        /\ InChain(InsertModeName) => RoomForRune
        /\ Press(k)

NextFile ==
    \/ Render
    \/ TypeText
    \/ PressCtrlS
    \/ SaveAsKey
    \/ PressCtrlE
    \/ FileNameKey

SpecFile == InitFile /\ [][NextFile]_vars


\* The loop of Run goes on: the step has returned to it without a panic
Alive == pc = "render" /\ ~crashed

\* The status message carries the text
Reports(msg, text) == \E i \in 1..Len(msg) : msg[i] = text

\* C24: confirming the open-file prompt with an empty file name is reported
\* through the status message, the open is aborted with the document
\* unchanged, and the editor stays alive: the loop goes on to the next key.
C24_EmptyFileNameIsReported ==
    [][(pc = "key" /\ prompt.kind = "StaticPrompt" /\ prompt.input = <<>>
           /\ hist'.key = "Enter")
          => (/\ Reports(statusmsg', ErrNoFileName)
              /\ rows' = rows
              /\ filename' = filename
              /\ Alive')]_vars

\* C25: an I/O failure while saving is surfaced through the status message
\* and is not fatal: after the failed save the main loop continues, with the
\* document and the cursor unchanged.
C25_FailedSaveIsReportedAndNotFatal ==
    [][(pc = "key" /\ hist'.key \in {"Ctrl-S", "Enter"} /\ hist'.err = ErrIO
           /\ prompt.kind \in {"none", "SaveAs"})
          => (/\ Reports(statusmsg', ErrIO)
              /\ rows' = rows
              /\ cx' = cx
              /\ cy' = cy
              /\ Alive')]_vars

\* C26: cancelling the save-as prompt with Escape is reported to the caller
\* as its own condition, neither success nor fault; it writes no file,
\* leaves the file name, the document and the modified flag unchanged, and
\* does not terminate the editor.
C26_CancelledSaveAsChangesNothing ==
    [][(pc = "key" /\ prompt.kind = "SaveAs" /\ hist'.key = "Esc")
          => (/\ hist'.err = ErrPromptCanceled
              /\ disk' = disk
              /\ filename' = filename
              /\ rows' = rows
              /\ modified' = modified
              /\ Alive')]_vars

-----------------------------------------------------------------------------
(* The read loops: the loop of Run, and the loop of the blocking Prompt of   *)
(* part_000 and of the oldest sdk.go, which runs inside the handler of the   *)
(* key that opened the prompt.  hist counts the renders since the last key.  *)

\* Positions at which readKey is called next
KeyPositions == {"key", "prompt.key"}

\* A loop in which the blocking Prompt reads its key without a Render
Resume_norender(e) ==
    IF e.blocked THEN "blocked"
    ELSE IF e.quit THEN "quit"
    ELSE IF e.prompt.kind \in BlockingKinds THEN "prompt.key"
    ELSE "render"

\* Where control goes when the callbacks of a key have returned: to the
\* Render of the Prompt loop while a blocking prompt is unfinished, to the
\* Render of Run otherwise, out of the loop on ErrQuitEditor.
Resume(e) ==
    IF e.blocked THEN "blocked"
    ELSE IF e.quit THEN "quit"
    ELSE IF e.prompt.kind \in BlockingKinds THEN "prompt.render"
    ELSE "render"

InitLoop ==
    /\ \E b \in FindBuilds, y \in 0..2, x \in 0..1 :
          InitEditor(b, NoSyntax, ThreeRowDoc, x, y)

\* editor.Render() of Run, e.Render() of Prompt
LoopRender ==
    /\ pc \in {"render", "prompt.render"}
    /\ ~crashed
    /\ \E e \in {RenderEd(Ed)} : Commit(e)
    /\ pc' = IF pc = "render" THEN "key" ELSE "prompt.key"
    /\ hist' = [key |-> hist.key, calls |-> 0, trace |-> OffTrack,
                renders |-> IF "renders" \in DOMAIN hist THEN hist.renders + 1
                            ELSE 1]

\* readKey() of ProcessKey or of Prompt, and everything the key runs
LoopKey ==
    \E k \in {"Ctrl-F", "j", "b", "a", "Backspace", "Esc", "Enter"} :
        /\ pc \in KeyPositions
        /\ ~crashed
        /\ PromptActive => k # "Ctrl-F" /\ k # "j"
        /\ k \in {"b", "a"} => (PromptActive /\ Len(prompt.query) < MaxQuery)
        /\ \E e \in {Step(Ed, k)} :
              /\ Commit(e)
              /\ pc' = Resume(e)
        /\ hist' = [key |-> "readKey", calls |-> 0, trace |-> OffTrack,
                    renders |-> 0]

NextLoop ==
    \/ LoopRender
    \/ LoopKey

SpecLoop == InitLoop /\ [][NextLoop]_vars

\* C31: the editor alternates strictly between rendering and key handling:
\* when a key is about to be read, exactly one Render has been performed
\* since the previous key was dispatched, and it has left the cursor clamped
\* and inside the window; so too for the keys read while a prompt is active.
C31_OneRenderBeforeEachKey ==
    (pc \in KeyPositions /\ ~crashed) =>
        /\ hist.renders = 1
        /\ RowClamped
        /\ ColumnClamped
        /\ InWindow(rowOffset, cy, ScreenRows)

\* The third key of a blocking search prompt is about to be read
C31_Witness ==
    /\ pc = "prompt.key"
    /\ prompt.kind = "Find_p0"
    /\ Len(prompt.query) = 2
    /\ hist.renders = 1
    /\ ~crashed


-----------------------------------------------------------------------------
(* Quitting: ctrl-q is pressed with and without unsaved changes, in the      *)
(* three linkings that ask before they quit.                                 *)

QuitBuilds == {"p0", "sdk", "p1"}

QuitKinds == {"Quit", "Quit_p0"}

QuitKeys == {"a", "x", "i", "Enter", "Esc", "Ctrl-Q"}

\* A file that exists is opened, or OpenFile creates the file and sets
\* modified (src/mini.go:506-510)
InitQuit ==
    /\ build \in QuitBuilds
    /\ syntax = NoSyntax
    /\ disk = <<>>
    /\ filename = <<>>
    /\ statusmsg = <<>>
    /\ modified \in BOOLEAN
    /\ rows = IF modified THEN <<>> ELSE OpenLoop(NoSyntax, <<>>, << <<"a">> >>)
    /\ cx = 0
    /\ cy = 0
    /\ rowOffset = 0
    /\ colOffset = 0
    /\ Mode = CommandMode
    /\ Keymapping = <<BasicMapName, CommandModeName>>
    /\ prompt = NoPrompt
    /\ crashed = FALSE
    /\ pc = "render"
    /\ hist = [key |-> "none", calls |-> 0, trace |-> OffTrack]

\* The chain a key finds when no prompt is open, and the one the open prompt
\* was entered from
ChainBelow == IF prompt.kind = "Quit" THEN prompt.backup ELSE Keymapping

QuitRender ==
    /\ pc \in {"render", "prompt.render"}
    /\ ~crashed
    /\ \E e \in {RenderEd(Ed)} : Commit(e)
    /\ pc' = IF pc = "render" THEN "key" ELSE "prompt.key"
    /\ UNCHANGED hist

\* A key is read by ProcessKey or by the blocking Prompt and dispatched.
\* hist keeps the key, whether the warning was showing and the chain below.
QuitKey ==
    \E k \in QuitKeys :
        /\ pc \in KeyPositions
        /\ ~crashed
        /\ WithinBounds(k)
        /\ \E e \in {Step(Ed, k)} :
              /\ Commit(e)
              /\ pc' = Resume(e)
        /\ hist' = [key |-> k, calls |-> 0, trace |-> OffTrack,
                    asked |-> prompt.kind \in QuitKinds,
                    unsaved |-> modified, chain |-> ChainBelow]

NextQuit ==
    \/ QuitRender
    \/ QuitKey

SpecQuit == InitQuit /\ [][NextQuit]_vars

\* The loop renders whenever it is at a Render; whether a key comes is up to
\* the user
FairQuit == SpecQuit /\ WF_vars(QuitRender)

Warned == hist.key = "Ctrl-Q" /\ hist.asked

\* C34: with unsaved changes ctrl-q shows the warning and does not quit, and
\* a second ctrl-q leads to the end of the main loop with ErrQuitEditor.
C34_SecondCtrlQQuits ==
    (~crashed /\ Warned) ~> (pc = "quit")

\* The first ctrl-q with unsaved changes opens the warning and goes on
C34_FirstCtrlQWarns ==
    (pc \notin KeyPositions /\ ~crashed
       /\ hist.key = "Ctrl-Q" /\ ~hist.asked /\ hist.unsaved)
        => (prompt.kind \in QuitKinds /\ pc \in {"render", "prompt.render"})

\* Any other key ends the warning and the editor goes on with the chain
\* that was installed when ctrl-q was pressed
C34_OtherKeyDismisses ==
    (pc \notin KeyPositions /\ ~crashed
       /\ hist.key \notin {"none", "Ctrl-Q"} /\ hist.asked)
        => (prompt = NoPrompt /\ pc = "render" /\ Keymapping = hist.chain)

\* The second ctrl-q of the key-maps of part_001:676-697 ends the loop
C34_QuitReached == pc = "quit" /\ Warned

\* The second ctrl-q of the key-maps of src/config.go never returns
C34_Blocked == pc = "blocked" /\ Warned /\ build \in {"sdk", "p1"}


-----------------------------------------------------------------------------
(* Comments to the end of the row: a file of one row over keywords, comment  *)
(* markers and quotes is opened and highlighted.                             *)

LineRunes == {"i", "f", "/", "*", "\"", " "}

LineTexts == UNION {[1..n -> LineRunes] : n \in 0..MaxKwLen}

InitLine ==
    /\ \E t \in LineTexts : rows = <<NewRow(t)>>
    /\ build = "p0"
    /\ syntax = JsSyntax
    /\ cx = 0
    /\ cy = 0
    /\ rowOffset = 0
    /\ colOffset = 0
    /\ Mode = CommandMode
    /\ modified = FALSE
    /\ Keymapping = <<BasicMapName, CommandModeName>>
    /\ prompt = NoPrompt
    /\ crashed = FALSE
    /\ pc = "open"
    /\ disk = <<>>
    /\ filename = <<>>
    /\ statusmsg = <<>>
    /\ hist = [key |-> "none", calls |-> 0, trace |-> OffTrack]

SpecLine == InitLine /\ [][NextKw]_vars

\* The index (from 0) at which the first single-line comment marker starts
\* that lies outside every string and every multi-line comment, reading the
\* text rune by rune from index i in the state mode: "code", "comment", or
\* the quote of the open string; -1 when there is none.
RECURSIVE CommentStart(_, _, _, _)
CommentStart(syn, text, i, mode) ==
    IF i >= Len(text) THEN -1
    ELSE IF mode = "code"
    THEN IF HasPrefix(Tail0(text, i), syn.scs) THEN i
         ELSE IF HasPrefix(Tail0(text, i), syn.mcs)
         THEN CommentStart(syn, text, i + Len(syn.mcs), "comment")
         ELSE IF text[i + 1] \in {"\"", "'"}
         THEN CommentStart(syn, text, i + 1, text[i + 1])
         ELSE CommentStart(syn, text, i + 1, "code")
    ELSE IF mode = "comment"
    THEN IF HasPrefix(Tail0(text, i), syn.mce)
         THEN CommentStart(syn, text, i + Len(syn.mce), "code")
         ELSE CommentStart(syn, text, i + 1, "comment")
    ELSE IF text[i + 1] = "\\" THEN CommentStart(syn, text, i + 2, mode)
    ELSE IF text[i + 1] = mode THEN CommentStart(syn, text, i + 1, "code")
    ELSE CommentStart(syn, text, i + 1, mode)

\* C35: when a single-line comment marker starts outside any string and
\* outside any multi-line comment, every cell from the marker to the end of
\* the row is of the comment category, whatever precedes the marker.
C35_CommentRunsToTheEndOfTheRow ==
    Highlighted =>
        \A s \in {CommentStart(syntax, rows[1].render, 0, "code")} :
            s # -1 => \A j \in (s + 1)..Len(rows[1].hl) : rows[1].hl[j] = hlComment

\* The same with a rune that is neither part of a keyword nor a quote just
\* before the marker
C35_CommentAfterASeparator ==
    Highlighted =>
        \A s \in {CommentStart(syntax, rows[1].render, 0, "code")} :
            (s > 0 /\ rows[1].hl[s] \notin KeywordHl)
                => \A j \in (s + 1)..Len(rows[1].hl) : rows[1].hl[j] = hlComment


-----------------------------------------------------------------------------
(* Strings across rows: a file of two rows over quotes and letters is        *)
(* opened and highlighted.                                                   *)

StringRunes == {"\"", "a", " "}

StringTexts == UNION {[1..n -> StringRunes] : n \in 0..MaxLen}

InitString ==
    /\ \E t \in StringTexts, u \in StringTexts : rows = <<NewRow(t), NewRow(u)>>
    /\ build = "p0"
    /\ syntax = JsSyntax
    /\ cx = 0
    /\ cy = 0
    /\ rowOffset = 0
    /\ colOffset = 0
    /\ Mode = CommandMode
    /\ modified = FALSE
    /\ Keymapping = <<BasicMapName, CommandModeName>>
    /\ prompt = NoPrompt
    /\ crashed = FALSE
    /\ pc = "open"
    /\ disk = <<>>
    /\ filename = <<>>
    /\ statusmsg = <<>>
    /\ hist = [key |-> "none", calls |-> 0, trace |-> OffTrack]

\* The loop of OpenFile over the lines of the file
OpenLines ==
    /\ pc = "open"
    /\ \E e \in {[Ed EXCEPT !.rows = OpenLoop(syntax, <<>>, Chars(rows))]} :
          /\ Commit(e)
          /\ hist' = [key |-> "OpenFile", calls |-> 0, trace |-> OffTrack]
    /\ pc' = "render"

NextString == OpenLines

SpecString == InitString /\ [][NextString]_vars

\* The number of quotes in the text
RECURSIVE Quotes(_)
Quotes(text) ==
    IF text = <<>> THEN 0
    ELSE (IF Head(text) = "\"" THEN 1 ELSE 0) + Quotes(Tail(text))

\* The cells of hl before the first quote of the text, or all of them
BeforeQuote(text) ==
    IF \E j \in 1..Len(text) : text[j] = "\""
    THEN 1..(Least({j \in 1..Len(text) : text[j] = "\""}) - 1)
    ELSE 1..Len(text)

\* C36: a string that is not closed at the end of row y goes on in row y+1:
\* the cells of row y+1 up to and including the closing quote are of the
\* string category.
C36_OpenStringContinuesOnTheNextRow ==
    (pc = "render" /\ hist.key = "OpenFile" /\ Quotes(rows[1].render) = 1)
        => \A j \in 1..Len(rows[2].hl) :
               (j - 1 \in BeforeQuote(rows[2].render) \cup {0})
                   => rows[2].hl[j] = hlString

\* An open string is highlighted to the end of its own row
C36_OpenStringToTheEndOfItsRow ==
    (pc = "render" /\ hist.key = "OpenFile" /\ Quotes(rows[1].render) = 1)
        => \A j \in 1..Len(rows[1].hl) :
               (j \notin BeforeQuote(rows[1].render)) => rows[1].hl[j] = hlString


-----------------------------------------------------------------------------
(* The modified flag: a file is opened and edited with the keys of SpecEdit, *)
(* ctrl-w and ctrl-q; disk keeps the bytes that were loaded.                 *)

ModifiedDocs ==
    { <<>>,
      << <<"a">> >>,
      << <<"a">>, <<"a">> >> }

InitModified ==
    \E b \in EditBuilds, d \in ModifiedDocs :
        /\ build = b
        /\ syntax = NoSyntax
        /\ disk = WriteLoop(d)
        /\ filename = <<"f">>
        /\ statusmsg = <<>>
        /\ rows = OpenLoop(NoSyntax, <<>>, d)
        /\ cx = 0
        /\ cy = 0
        /\ rowOffset = 0
        /\ colOffset = 0
        /\ Mode = CommandMode
        /\ modified = FALSE
        /\ Keymapping = <<BasicMapName, CommandModeName>>
        /\ prompt = NoPrompt
        /\ crashed = FALSE
        /\ pc = "render"
        /\ hist = [key |-> "none", calls |-> 0, trace |-> <<>>]

PressCtrlW ==
    /\ ~PromptActive
    /\ Press("Ctrl-W")

\* ctrl-q, pressed in the document or under the warning
PressCtrlQ ==
    /\ ~crashed
    /\ Press("Ctrl-Q")

\* The rune 'a' typed in Insert mode
TypeRune ==
    /\ ~PromptActive
    /\ InChain(InsertModeName)
    /\ RoomForRune
    /\ Press("a")

NextModified ==
    \/ Render
    \/ TypeRune
    \/ PressEnter
    \/ PressBackspace
    \/ CommandKey
    \/ PressCtrlC
    \/ PressCtrlW
    \/ PressCtrlQ

SpecModified == InitModified /\ [][NextModified]_vars

\* The bytes Save would write are not the bytes that were loaded
Unsaved == WriteLoop(Chars(rows)) # disk

\* C37: the modified flag is true whenever the content of the document
\* differs from the content last loaded, after any sequence of edits.
C37_ModifiedWhenContentDiffers ==
    (~crashed /\ Unsaved) => modified

\* ctrl-q does not end the loop while the content differs from the file
C37_NoQuitWithUnsavedEdits ==
    (~crashed /\ pc = "quit") => ~Unsaved


-----------------------------------------------------------------------------
(* Mode and chain (properties of SpecPrompt) *)

ModeAgreesWithChain ==
    /\ Mode = InsertMode <=> InChain(InsertModeName)
    /\ Mode = CommandMode <=> InChain(CommandModeName)

\* C38: whenever no prompt is active, Mode is InsertMode exactly when the
\* chain contains the Insert map and CommandMode exactly when it contains
\* the Command map; so too after a prompt has finished.
C38_ModeAgreesWithChainOutsidePrompts ==
    (~PromptActive /\ ~crashed) => ModeAgreesWithChain

\* A key handled while no prompt is open keeps Mode and chain in agreement
C38_KeysOutsidePromptsKeepAgreement ==
    [][(~PromptActive /\ ~PromptActive' /\ ~crashed' /\ ModeAgreesWithChain)
          => ModeAgreesWithChain']_vars


-----------------------------------------------------------------------------
(* The interactive search against the static search (properties of SpecFind) *)

\* The positions <<y, x>> at or after (x0, y0) at which the query occurs
MatchesAfter(x0, y0, q) ==
    {p \in (y0..(Len(rows) - 1)) \X (0..Len(HelloWorld)) :
        /\ MatchesAt(rows[p[1] + 1].chars, q, p[2])
        /\ p[1] = y0 => p[2] >= x0}

\* The cursor <<cy, cx>> a search from scratch for q gives, started at the
\* saved cursor: the first match at or after it, or the saved cursor itself
FromScratch(q) ==
    IF MatchesAfter(prompt.savedCx, prompt.savedCy, q) = {}
    THEN <<prompt.savedCy, prompt.savedCx>>
    ELSE FirstInOrder(MatchesAfter(prompt.savedCx, prompt.savedCy, q))

\* A key of the interactive search has been handled and the prompt goes on
SearchGoesOn ==
    /\ pc = "key"
    /\ prompt.kind = "FindInteractive"
    /\ prompt'.kind = "FindInteractive"

\* C39: during the interactive search, after every keystroke that edits the
\* query or is ignored, the cursor is where a static search from scratch for
\* the current query, started at the saved start cursor, puts it.
C39_CursorIsTheSearchFromScratch ==
    [][SearchGoesOn
          => (~crashed' /\ <<cy', cx'>> = FromScratch(prompt'.query))]_vars

\* The same for the keystrokes whose search returns
C39_CursorWhenTheSearchReturns ==
    [][(SearchGoesOn /\ ~crashed')
          => <<cy', cx'>> = FromScratch(prompt'.query)]_vars


-----------------------------------------------------------------------------
(* Keys that are not printable, in Insert mode (properties of SpecKeys) *)

\* C40: in Insert mode a key that is not printable and that neither the
\* basic map nor the insert map claims leaves the rows unchanged.
C40_UnprintableKeyLeavesTheRows ==
    [][(pc = "key" /\ pc' # "key" /\ ~PromptActive
          /\ Keymapping = <<BasicMapName, InsertModeName>>
          /\ hist'.read \in UnboundInInsert
          /\ ~isPrintable(hist'.read))
          => (~crashed' /\ rows' = rows)]_vars

=============================================================================
